---------------------------- MODULE Spec2Model ----------------------------
(***************************************************************************)
(* Model of the Service controller of kube-controller01                    *)
(* (internal/controller/service_controller.go): the Reconcile state        *)
(* machine, the teardown orchestrator deleteNaverCloudLB and the           *)
(* provisioner reconcileNaverCloudLB, against an API server holding one    *)
(* Service and a cloud account holding load balancers and target groups.   *)
(*                                                                         *)
(* Strings whose content the code inspects (annotation values, resource    *)
(* names) are sequences of one-character strings; "" is << >>.             *)
(***************************************************************************)
EXTENDS Integers, Sequences, FiniteSets, TLC

VARIABLES
    stored,          \* the Service held by the API server, or NoService
    created,         \* the user has created the Service once
    parked,          \* the other Services of the store, each with its queue flag
    cloudLBs,        \* load balancers existing in the cloud: records [id, name]
    cloudTGs,        \* target groups existing in the cloud: records [id, name]
    cloudListeners,  \* listeners existing in the cloud: records [lb, port, tg]
    queued,          \* a reconcile request for the Service is in the work queue
    pc,              \* position of the worker inside Reconcile ("idle" between passes)
    service,         \* Reconcile's local variable `service` (copy read by r.Get)
    local,           \* the provisioner's local variables (targetGroupIDs, lbID, ...)
    stale,           \* the stored object changed since `service` was read
    calls,           \* cloud API calls of the operation in progress or just ended, in order
    pass,            \* bookkeeping of the current / latest Reconcile pass
    result           \* what the latest finished pass returned: (ctrl.Result, error)

vars == <<stored, created, parked, cloudLBs, cloudTGs, cloudListeners, queued, pc, service, local,
          stale, calls, pass, result>>

-----------------------------------------------------------------------------
(* Program constants                                                       *)

naverLBFinalizer == "naver.k-paas.org/lb-finalizer"
LbIdKey == "naver.k-paas.org/lb-id"
TargetGroupsKey == "naver.k-paas.org/target-groups"
PortsKey == "naver.k-paas.org/ports"
ServiceTypeLoadBalancer == "LoadBalancer"

NoService == [kind |-> "none"]
Nil == "nil"

-----------------------------------------------------------------------------
(* Helpers of the controller                                               *)

\* containsString: the slice holds s
containsString(slice, s) ==
    \E i \in 1..Len(slice) : slice[i] = s

\* removeString: the slice without every occurrence of s, order kept
RECURSIVE removeString(_, _)
removeString(slice, s) ==
    IF Len(slice) = 0 THEN << >>
    ELSE IF Head(slice) = s THEN removeString(Tail(slice), s)
         ELSE <<Head(slice)>> \o removeString(Tail(slice), s)

\* strings.Split(s, sep) for a one-character sep: the substrings between
\* separators; the split of "" is <<"">>
RECURSIVE SplitOn(_, _, _, _)
SplitOn(s, sep, i, cur) ==
    IF i > Len(s) THEN <<cur>>
    ELSE IF s[i] = sep THEN <<cur>> \o SplitOn(s, sep, i + 1, << >>)
         ELSE SplitOn(s, sep, i + 1, Append(cur, s[i]))

Split(s) == SplitOn(s, ",", 1, << >>)

\* strings.Join(list, ",")
RECURSIVE Join(_)
Join(list) ==
    IF Len(list) = 0 THEN << >>
    ELSE IF Len(list) = 1 THEN list[1]
         ELSE list[1] \o <<",">> \o Join(Tail(list))

\* Go map lookup  v, ok := m[k]
AnnHas(ann, k) == k \in DOMAIN ann
AnnGet(ann, k) == IF k \in DOMAIN ann THEN ann[k] ELSE << >>
AnnSet(ann, k, v) == [x \in (DOMAIN ann) \cup {k} |-> IF x = k THEN v ELSE ann[x]]

-----------------------------------------------------------------------------
(* Teardown orchestrator: deleteNaverCloudLB                               *)

\* One cloud API call: the operation, its argument and whether it succeeded
Call(op, arg, ok) == [op |-> op, arg |-> arg, ok |-> ok]

\* A faulty loop that does not skip empty entries
RECURSIVE deleteTargetGroups_KeepEmpty(_, _, _)
deleteTargetGroups_KeepEmpty(targetGroupIDs, i, tgFail) ==
    IF i > Len(targetGroupIDs) THEN << >>
    ELSE <<Call("DeleteTargetGroups", targetGroupIDs[i], i \notin tgFail)>>
         \o deleteTargetGroups_KeepEmpty(targetGroupIDs, i + 1, tgFail)

\* A faulty loop that stops at the first failed delete call
RECURSIVE deleteTargetGroups_StopOnFailure(_, _, _)
deleteTargetGroups_StopOnFailure(targetGroupIDs, i, tgFail) ==
    IF i > Len(targetGroupIDs) THEN << >>
    ELSE IF targetGroupIDs[i] = << >>
         THEN deleteTargetGroups_StopOnFailure(targetGroupIDs, i + 1, tgFail)
         ELSE IF i \in tgFail
              THEN <<Call("DeleteTargetGroups", targetGroupIDs[i], FALSE)>>
              ELSE <<Call("DeleteTargetGroups", targetGroupIDs[i], TRUE)>>
                   \o deleteTargetGroups_StopOnFailure(targetGroupIDs, i + 1, tgFail)

\* The loop over the split target-groups annotation: empty entries are
\* skipped, every other entry gets one DeleteTargetGroups call; a failed call
\* is logged and the loop continues.  tgFail: indices whose call fails.
RECURSIVE deleteTargetGroups(_, _, _)
deleteTargetGroups(targetGroupIDs, i, tgFail) ==
    IF i > Len(targetGroupIDs) THEN << >>
    ELSE IF targetGroupIDs[i] = << >>
         THEN deleteTargetGroups(targetGroupIDs, i + 1, tgFail)
         ELSE <<Call("DeleteTargetGroups", targetGroupIDs[i], i \notin tgFail)>>
              \o deleteTargetGroups(targetGroupIDs, i + 1, tgFail)

\* A faulty teardown that deletes the target groups before the load balancer
deleteNaverCloudLB_TgFirst(svc, lbOk, tgFail) ==
    LET lbID == AnnGet(svc.annotations, LbIdKey)
        targetGroupsStr == AnnGet(svc.annotations, TargetGroupsKey)
        lbCalls == IF lbID # << >>
                   THEN <<Call("DeleteLoadBalancerInstances", lbID, lbOk)>> ELSE << >>
        tgCalls == IF targetGroupsStr # << >>
                   THEN deleteTargetGroups(Split(targetGroupsStr), 1, tgFail) ELSE << >>
    IN  IF lbCalls # << >> /\ ~lbOk
        THEN [calls |-> tgCalls \o lbCalls, err |-> "DeleteLoadBalancerFailed"]
        ELSE [calls |-> tgCalls \o lbCalls, err |-> Nil]

\* A faulty teardown that goes on to the target groups after a failed
\* load-balancer delete call
deleteNaverCloudLB_ContinueAfterLbFailure(svc, lbOk, tgFail) ==
    LET lbID == AnnGet(svc.annotations, LbIdKey)
        targetGroupsStr == AnnGet(svc.annotations, TargetGroupsKey)
        lbCalls == IF lbID # << >>
                   THEN <<Call("DeleteLoadBalancerInstances", lbID, lbOk)>> ELSE << >>
        tgCalls == IF targetGroupsStr # << >>
                   THEN deleteTargetGroups(Split(targetGroupsStr), 1, tgFail) ELSE << >>
    IN  [calls |-> lbCalls \o tgCalls, err |-> Nil]

\* deleteNaverCloudLB(service): the calls it issues and the error it returns.
\* lbOk: outcome of the DeleteLoadBalancerInstances call, if one is issued.
deleteNaverCloudLB(svc, lbOk, tgFail) ==
    LET lbExists == AnnHas(svc.annotations, LbIdKey)
        lbID == AnnGet(svc.annotations, LbIdKey)
        tgExists == AnnHas(svc.annotations, TargetGroupsKey)
        targetGroupsStr == AnnGet(svc.annotations, TargetGroupsKey)
        lbCalls == IF lbExists /\ lbID # << >>
                   THEN <<Call("DeleteLoadBalancerInstances", lbID, lbOk)>>
                   ELSE << >>
        tgCalls == IF tgExists /\ targetGroupsStr # << >>
                   THEN deleteTargetGroups(Split(targetGroupsStr), 1, tgFail)
                   ELSE << >>
    IN  IF ~lbExists /\ ~tgExists
        THEN [calls |-> << >>, err |-> Nil]
        ELSE IF lbCalls # << >> /\ ~lbOk
             THEN [calls |-> lbCalls, err |-> "DeleteLoadBalancerFailed"]
             ELSE [calls |-> lbCalls \o tgCalls, err |-> Nil]

\* Effect of successful delete calls on the cloud account
DeletedIds(cs, op) == {cs[i].arg : i \in {j \in 1..Len(cs) : cs[j].op = op /\ cs[j].ok}}
LBsAfter(lbs, cs) == {l \in lbs : l.id \notin DeletedIds(cs, "DeleteLoadBalancerInstances")}
TGsAfter(tgs, cs) == {t \in tgs : t.id \notin DeletedIds(cs, "DeleteTargetGroups")}

-----------------------------------------------------------------------------
(* Naming function: generateValidName                                      *)

Lower == <<"a","b","c","d","e","f","g","h","i","j","k","l","m",
           "n","o","p","q","r","s","t","u","v","w","x","y","z">>
Upper == <<"A","B","C","D","E","F","G","H","I","J","K","L","M",
           "N","O","P","Q","R","S","T","U","V","W","X","Y","Z">>
Digits == <<"0","1","2","3","4","5","6","7","8","9">>

InSeq(c, sq) == \E i \in 1..Len(sq) : sq[i] = c
IsLower(c) == InSeq(c, Lower)
IsDigit(c) == InSeq(c, Digits)

\* strings.ToLower on one character
ToLowerChar(c) ==
    IF InSeq(c, Upper) THEN Lower[CHOOSE i \in 1..Len(Upper) : Upper[i] = c] ELSE c

ToLower(s) == [i \in 1..Len(s) |-> ToLowerChar(s[i])]

\* fmt.Sprintf("%d", n) for n >= 0
RECURSIVE Itoa(_)
Itoa(n) == IF n < 10 THEN <<Digits[n + 1]>> ELSE Itoa(n \div 10) \o <<Digits[(n % 10) + 1]>>

\* strings.Join(parts, "-")
RECURSIVE JoinHyphen(_)
JoinHyphen(parts) ==
    IF Len(parts) = 0 THEN << >>
    ELSE IF Len(parts) = 1 THEN parts[1]
         ELSE parts[1] \o <<"-">> \o JoinHyphen(Tail(parts))

\* regexp [^a-z0-9-] replaced by "": only lowercase letters, digits, hyphens stay
KeepValid(s) == SelectSeq(s, LAMBDA c : IsLower(c) \/ IsDigit(c) \/ c = "-")

\* strings.ReplaceAll(s, "--", "-"): non-overlapping pairs, left to right
RECURSIVE ReplaceDoubleHyphen(_)
ReplaceDoubleHyphen(s) ==
    IF Len(s) < 2 THEN s
    ELSE IF s[1] = "-" /\ s[2] = "-"
         THEN <<"-">> \o ReplaceDoubleHyphen(SubSeq(s, 3, Len(s)))
         ELSE <<s[1]>> \o ReplaceDoubleHyphen(Tail(s))

ContainsDoubleHyphen(s) == \E i \in 1..(Len(s) - 1) : s[i] = "-" /\ s[i + 1] = "-"

\* for strings.Contains(name, "--") { name = strings.ReplaceAll(name, "--", "-") }
RECURSIVE CollapseHyphens(_)
CollapseHyphens(s) ==
    IF ContainsDoubleHyphen(s) THEN CollapseHyphens(ReplaceDoubleHyphen(s)) ELSE s

\* strings.Trim(s, "-")
RECURSIVE TrimLeftHyphen(_)
TrimLeftHyphen(s) == IF Len(s) > 0 /\ s[1] = "-" THEN TrimLeftHyphen(Tail(s)) ELSE s
RECURSIVE TrimRightHyphen(_)
TrimRightHyphen(s) ==
    IF Len(s) > 0 /\ s[Len(s)] = "-" THEN TrimRightHyphen(SubSeq(s, 1, Len(s) - 1)) ELSE s
TrimHyphen(s) == TrimRightHyphen(TrimLeftHyphen(s))

\* A faulty TrimSuffix that leaves the trailing hyphen
TrimSuffixHyphen_Keep(s) == s

\* strings.TrimSuffix(s, "-"): at most one trailing hyphen
TrimSuffixHyphen(s) == IF Len(s) > 0 /\ s[Len(s)] = "-" THEN SubSeq(s, 1, Len(s) - 1) ELSE s

MaxNameLen == 30
MinNameLen == 3
TgPrefix == <<"t","g","-">>
TgDefault == <<"t","g","-","d","e","f","a","u","l","t">>
DefaultNamespace == <<"d","e","f","a","u","l","t">>

generateValidName(prefix, namespace, serviceName, suffix) ==
    LET parts == (IF prefix # << >> THEN <<prefix>> ELSE << >>)
                 \o (IF namespace # << >> /\ namespace # DefaultNamespace
                     THEN <<namespace>> ELSE << >>)
                 \o (IF serviceName # << >> THEN <<serviceName>> ELSE << >>)
                 \o (IF suffix # << >> THEN <<suffix>> ELSE << >>)
        joined == JoinHyphen(parts)
        cleaned == TrimHyphen(CollapseHyphens(KeepValid(ToLower(joined))))
        lettered == IF Len(cleaned) = 0 \/ ~IsLower(cleaned[1])
                    THEN TgPrefix \o cleaned ELSE cleaned
        cut == IF Len(lettered) > MaxNameLen THEN SubSeq(lettered, 1, MaxNameLen) ELSE lettered
        trimmed == TrimSuffixHyphen(cut)
        padded == IF Len(trimmed) < MinNameLen THEN TgPrefix \o trimmed ELSE trimmed
    IN  IF Len(padded) < MinNameLen THEN TgDefault ELSE padded

LbNamePrefix == <<"k","8","s","-","l","b">>
TgNamePrefix == <<"t","g">>

lbNameOf(svc) == generateValidName(LbNamePrefix, svc.namespace, svc.name, << >>)
\* the target-group name of the port at 0-based index i
tgNameOf(svc, i) == generateValidName(TgNamePrefix, svc.namespace, svc.name, Itoa(i))

-----------------------------------------------------------------------------
(* External address resolution and readiness polling                       *)

\* A GetLoadBalancerInstanceDetail response is a record
\*   [err, found, hasStatus, code, statusName, hasDomain, domain, ipList]
\* err: the call failed; found: the instance list is non-empty; hasStatus:
\* LoadBalancerInstanceStatus is non-nil; ipList: a sequence of strings.

FallbackHostname(lbID) ==
    <<"l","b","-">> \o lbID \o <<".","n","c","l","o","u","d",".","c","o","m">>

\* A faulty resolver that does not look at the operation status
getLoadBalancerExternalAddress_NoStatusCheck(lbID, resp) ==
    IF resp.err THEN [addr |-> << >>, err |-> "DetailError"]
    ELSE IF ~resp.found THEN [addr |-> << >>, err |-> "NotFound"]
    ELSE IF resp.hasDomain /\ resp.domain # << >>
    THEN [addr |-> resp.domain, err |-> Nil]
    ELSE [addr |-> FallbackHostname(lbID), err |-> Nil]

\* getLoadBalancerExternalAddress on the detail response resp: (address, error)
getLoadBalancerExternalAddress(lbID, resp) ==
    IF resp.err THEN [addr |-> << >>, err |-> "DetailError"]
    ELSE IF ~resp.found THEN [addr |-> << >>, err |-> "NotFound"]
    ELSE IF resp.hasStatus /\ resp.code # "RUN" /\ resp.code # "USED"
    THEN [addr |-> << >>, err |-> "NotReady"]
    ELSE IF resp.hasDomain /\ resp.domain # << >>
    THEN [addr |-> resp.domain, err |-> Nil]
    ELSE IF Len(resp.ipList) > 0 /\ resp.ipList[1] # << >>
    THEN [addr |-> resp.ipList[1], err |-> Nil]
    ELSE [addr |-> FallbackHostname(lbID), err |-> Nil]

MaxAddressAttempts == 5

\* A faulty loop that makes one attempt only
resolveWithRetry_Once(lbID, resp, retry) ==
    LET r == getLoadBalancerExternalAddress(lbID, resp)
    IN  [done |-> TRUE, addr |-> r.addr, err |-> r.err]

\* One iteration of the retry loop of the creation branch (lines 553-561),
\* the fetch of index retry answered by resp: the address and error of the
\* fetch, and whether the loop ends with it (a success, or the fifth
\* fetch); a failed fetch is followed by the sleep of line 560
resolveWithRetry(lbID, resp, retry) ==
    LET r == getLoadBalancerExternalAddress(lbID, resp)
    IN  [done |-> r.err = Nil \/ retry + 1 >= MaxAddressAttempts,
         addr |-> r.addr, err |-> r.err]

\* A faulty poll that goes on after it saw ERROR or TERMINATING
waitForLoadBalancerReady_IgnoreError(resp, maxRetries, i) ==
    IF ~resp.err /\ resp.found /\ resp.hasStatus
       /\ resp.code \in {"RUN", "USED"} /\ resp.statusName = "Running"
    THEN [done |-> TRUE, err |-> Nil]
    ELSE IF i + 1 >= maxRetries THEN [done |-> TRUE, err |-> "Timeout"]
    ELSE [done |-> FALSE, err |-> Nil]

\* One iteration of the loop of waitForLoadBalancerReady(lbID, maxRetries)
\* (lines 722-774), the fetch of index i answered by resp: whether the
\* function returns with it, and the error returned.  An iteration that does
\* not return sleeps (lines 730, 773); after the last one the function
\* returns the timeout error (line 776).
waitForLoadBalancerReady(resp, maxRetries, i) ==
    IF ~resp.err /\ resp.found /\ resp.hasStatus
       /\ resp.code \in {"RUN", "USED"} /\ resp.statusName = "Running"
    THEN [done |-> TRUE, err |-> Nil]
    ELSE IF ~resp.err /\ resp.found /\ resp.hasStatus /\ resp.code \in {"ERROR", "TERMINATING"}
    THEN [done |-> TRUE, err |-> "ErrorState"]
    ELSE IF i + 1 >= maxRetries THEN [done |-> TRUE, err |-> "Timeout"]
    ELSE [done |-> FALSE, err |-> Nil]

MaxReadyRetries == 10

\* A faulty pattern that takes any four dot-separated groups
ipPatternMatch_FourGroups(s) ==
    Len(SplitOn(s, ".", 1, << >>)) = 4

\* The pattern ^\d{1,3}\.\d{1,3}\.\d{1,3}\.\d{1,3}$
ipPatternMatch(s) ==
    LET groups == SplitOn(s, ".", 1, << >>)
    IN  /\ Len(groups) = 4
        /\ \A g \in 1..4 : /\ Len(groups[g]) \in 1..3
                           /\ \A k \in 1..Len(groups[g]) : IsDigit(groups[g][k])

-----------------------------------------------------------------------------
(* Node resolver and target registration engine                            *)

MasterLabel == "node-role.kubernetes.io/master"
ControlPlaneLabel == "node-role.kubernetes.io/control-plane"

\* A node is a record [name, labels, taints, addresses, providerID, annotations]:
\* labels is the set of label keys, taints the sequence of taint keys,
\* addresses a sequence of [type, address], annotations a map to strings.

\* A faulty check that looks at the labels only
isMasterNode_LabelsOnly(node) ==
    \/ MasterLabel \in node.labels
    \/ ControlPlaneLabel \in node.labels

\* isMasterNode, lines 1053-1075: a role label or a role taint key
isMasterNode(node) ==
    \/ MasterLabel \in node.labels
    \/ ControlPlaneLabel \in node.labels
    \/ \E t \in 1..Len(node.taints) : node.taints[t] \in {MasterLabel, ControlPlaneLabel}

\* the address of the first InternalIP entry, "" when there is none
getNodeInternalIP(node) ==
    LET idx == {a \in 1..Len(node.addresses) : node.addresses[a].type = "InternalIP"}
    IN  IF idx = {} THEN ""
        ELSE node.addresses[CHOOSE a \in idx : \A b \in idx : a <= b].address

InstanceIdAnnotation == "naver.cloud/instance-id"

\* getNaverCloudInstanceNo: provider id (last path segment), annotation,
\* numeric node name, else ""
getNaverCloudInstanceNo(node) ==
    IF node.providerID # << >>
    THEN LET parts == SplitOn(node.providerID, "/", 1, << >>) IN parts[Len(parts)]
    ELSE IF InstanceIdAnnotation \in DOMAIN node.annotations
    THEN node.annotations[InstanceIdAnnotation]
    ELSE IF Len(node.name) > 0 /\ \A k \in 1..Len(node.name) : IsDigit(node.name[k])
    THEN node.name
    ELSE << >>

\* The server API as seen by one lookup is a record
\*   [niErr, niList, srvErr, srvList, instErr, instIPs]
\* niList: sequence of [ip, instanceNo] of the unfiltered interface listing;
\* srvList: sequence of instance numbers; instErr: the instances whose
\* interface query fails; instIPs: instance number -> set of its IPs.

\* checkInstanceNetworkInterface for the servers srvList[k..]: the first
\* instance owning nodeIP
RECURSIVE serverListScan(_, _, _)
serverListScan(v, nodeIP, k) ==
    IF k > Len(v.srvList)
    THEN [instanceNo |-> << >>, err |-> "NoMatchingServer", calls |-> << >>]
    ELSE LET inst == v.srvList[k]
             ok == inst \notin v.instErr
             found == ok /\ nodeIP \in v.instIPs[inst]
             c == Call("GetNetworkInterfaceList", inst, ok)
         IN  IF found
             THEN [instanceNo |-> inst, err |-> Nil, calls |-> <<c>>]
             ELSE LET rest == serverListScan(v, nodeIP, k + 1)
                  IN  [rest EXCEPT !.calls = <<c>> \o @]

getInstanceNoByServerListFallback(v, nodeIP) ==
    LET c == Call("GetServerInstanceList", << >>, ~v.srvErr)
    IN  IF v.srvErr
        THEN [instanceNo |-> << >>, err |-> "ServerListError", calls |-> <<c>>]
        ELSE IF Len(v.srvList) = 0
        THEN [instanceNo |-> << >>, err |-> "NoServers", calls |-> <<c>>]
        ELSE LET r == serverListScan(v, nodeIP, 1)
             IN  [r EXCEPT !.calls = <<c>> \o @]

getNaverCloudInstanceNoByIP(v, nodeIP) ==
    LET c == Call("GetNetworkInterfaceList", << >>, ~v.niErr)
        hits == {k \in 1..Len(v.niList) :
                    v.niList[k].ip = nodeIP /\ v.niList[k].instanceNo # << >>}
        fb == getInstanceNoByServerListFallback(v, nodeIP)
    IN  IF v.niErr \/ Len(v.niList) = 0 \/ hits = {}
        THEN [fb EXCEPT !.calls = <<c>> \o @]
        ELSE [instanceNo |-> v.niList[CHOOSE k \in hits : \A j \in hits : k <= j].instanceNo,
              err |-> Nil, calls |-> <<c>>]

\* A faulty verification that takes a failed listing for a confirmation
verifyTargetRegistration_FailureConfirms(resp, expectedTargets) ==
    IF resp.kind # "ok"
    THEN [successful |-> expectedTargets, failed |-> << >>, err |-> Nil]
    ELSE [successful |-> SelectSeq(expectedTargets, LAMBDA t : t \in resp.registered),
          failed |-> SelectSeq(expectedTargets, LAMBDA t : t \notin resp.registered),
          err |-> Nil]

\* A faulty verification that reports every expected target as failed
verifyTargetRegistration_CarryAll(resp, expectedTargets) ==
    IF resp.kind # "ok"
    THEN [successful |-> << >>, failed |-> expectedTargets, err |-> "VerifyError"]
    ELSE [successful |-> SelectSeq(expectedTargets, LAMBDA t : t \in resp.registered),
          failed |-> expectedTargets,
          err |-> Nil]

\* verifyTargetRegistration: resp is the GetTargetList response
\* [kind, registered], kind "err" (call failed), "nil" (no response) or "ok"
\* with the set of registered target numbers; result (successful, failed, error)
verifyTargetRegistration(resp, expectedTargets) ==
    IF resp.kind # "ok"
    THEN [successful |-> << >>, failed |-> expectedTargets, err |-> "VerifyError"]
    ELSE [successful |-> SelectSeq(expectedTargets, LAMBDA t : t \in resp.registered),
          failed |-> SelectSeq(expectedTargets, LAMBDA t : t \notin resp.registered),
          err |-> Nil]

MaxAddRetries == 3

\* A faulty loop that goes on after every target was confirmed
retryLoopDone_NoEarlyStop(remainingTargets, retry) == retry >= MaxAddRetries

\* addTargetsWithRetry, lines 1541-1545 and 1609-1615: the loop ends after
\* three rounds or when no target remains
retryLoopDone(remainingTargets, retry) ==
    retry >= MaxAddRetries \/ Len(remainingTargets) = 0

\* One round of the retry loop of addTargetsWithRetry (lines 1546-1606).
\* o.add[k]: the k-th round's AddTarget call succeeds; o.verify[k]: the k-th
\* round's GetTargetList response.  Result: the targets that remain, the
\* calls of the round and lastErr.  A failed AddTarget call of the first two
\* rounds is followed by the sleep of line 1582.
addTargetsLoop(remainingTargets, retry, lastErr, o) ==
    LET addCall == Call("AddTarget", remainingTargets, o.add[retry + 1])
    IN  IF ~o.add[retry + 1]
        THEN [remaining |-> remainingTargets, calls |-> <<addCall>>, lastErr |-> "AddTargetError"]
        ELSE LET v == verifyTargetRegistration(o.verify[retry + 1], remainingTargets)
                 vCall == Call("GetTargetList", remainingTargets, o.verify[retry + 1].kind # "err")
             IN  [remaining |-> IF v.err # Nil THEN remainingTargets ELSE v.failed,
                  calls |-> <<addCall, vCall>>, lastErr |-> lastErr]

\* checkTargetGroupStatus: o.diag is "detailErr", "detailEmpty", "listErr",
\* "listNil", "noTargets" or "ok"; the calls it issues and its error
checkTargetGroupStatus(o) ==
    LET d == Call("GetTargetGroupDetail", << >>, o.diag # "detailErr")
        l == Call("GetTargetList", << >>, o.diag # "listErr")
    IN  IF o.diag \in {"detailErr", "detailEmpty"}
        THEN [calls |-> <<d>>, err |-> "StatusError"]
        ELSE IF o.diag \in {"listErr", "noTargets"}
        THEN [calls |-> <<d, l>>, err |-> "StatusError"]
        ELSE [calls |-> <<d, l>>, err |-> Nil]

\* A faulty addTargetsWithRetry that reports a partial registration as an error
addTargetsResult_PartialIsError(targets, remainingTargets, o) ==
    LET st == checkTargetGroupStatus(o)
    IN  IF Len(remainingTargets) > 0
        THEN [calls |-> << >>, err |-> "AllTargetsFailed", diag |-> FALSE]
        ELSE [calls |-> st.calls, err |-> Nil, diag |-> TRUE]

\* addTargetsWithRetry after its retry loop (lines 1618-1651), with the
\* targets the loop left unconfirmed: the calls issued, the error returned
\* and whether the final status check ran
addTargetsResult(targets, remainingTargets, o) ==
    LET st == checkTargetGroupStatus(o)
    IN  IF Len(remainingTargets) > 0 /\ ~(Len(remainingTargets) < Len(targets))
        THEN [calls |-> << >>, err |-> "AllTargetsFailed", diag |-> FALSE]
        ELSE [calls |-> st.calls, err |-> Nil, diag |-> TRUE]

\* The node loop of addNodesToTargetGroup from node k on: the targets
\* gathered and the lookup calls issued.  o.vserver[k]: the server API as
\* seen by the lookup for node k.
RECURSIVE gatherTargets(_, _, _)
gatherTargets(nodes, k, o) ==
    IF k > Len(nodes) THEN [targets |-> << >>, calls |-> << >>]
    ELSE LET node == nodes[k]
             rest == gatherTargets(nodes, k + 1, o)
             nodeIP == getNodeInternalIP(node)
             meta == getNaverCloudInstanceNo(node)
             api == getNaverCloudInstanceNoByIP(o.vserver[k], nodeIP)
         IN  IF isMasterNode(node) \/ nodeIP = "" THEN rest
             ELSE IF meta # << >>
             THEN [rest EXCEPT !.targets = <<meta>> \o @]
             ELSE IF api.err # Nil
             THEN [rest EXCEPT !.calls = api.calls \o @]
             ELSE [targets |-> <<api.instanceNo>> \o rest.targets,
                   calls |-> api.calls \o rest.calls]

\* addNodesToTargetGroup up to its call of addTargetsWithRetry (lines
\* 992-1049): the lookup calls issued, the targets gathered, whether
\* addTargetsWithRetry is called and, when it is not, the error returned.
\* o.nodeListOk is the outcome of r.List
addNodesToTargetGroup(nodes, o) ==
    IF ~o.nodeListOk
    THEN [calls |-> << >>, err |-> "NodeListError", targets |-> << >>, enters |-> FALSE]
    ELSE IF Len(nodes) = 0
    THEN [calls |-> << >>, err |-> Nil, targets |-> << >>, enters |-> FALSE]
    ELSE LET g == gatherTargets(nodes, 1, o)
         IN  IF Len(g.targets) = 0
             THEN [calls |-> g.calls, err |-> "NoValidTargets", targets |-> << >>,
                   enters |-> FALSE]
             ELSE [calls |-> g.calls, err |-> Nil, targets |-> g.targets, enters |-> TRUE]

-----------------------------------------------------------------------------
(* The API server and the work queue                                       *)

\* The event filter of SetupWithManager: only LoadBalancer Services pass
isLoadBalancerService(object) ==
    object # NoService /\ object.type = ServiceTypeLoadBalancer

\* r.Update(ctx, obj) accepted by the API server: metadata and spec are
\* replaced, status is kept; an object that is being deleted and has no
\* finalizer left is removed.
AfterUpdate(obj) ==
    IF obj.deletionTimestamp /\ obj.finalizers = << >>
    THEN NoService
    ELSE [obj EXCEPT !.ingress = stored.ingress]

\* r.Update(ctx, &service) with the pass's own copy is rejected (conflict)
\* when the stored object changed since the copy was read, or is gone
UpdateAccepted(updOk) == updOk /\ ~stale /\ stored # NoService

\* controller-runtime requeues a request that returned an error or RequeueAfter
Requeued(res) == res.err # Nil \/ res.RequeueAfter > 0

Result(after, err) == [RequeueAfter |-> after, err |-> err]

EmptyPass ==
    [fetched |-> "none", startSvc |-> NoService, exit |-> "", teardown |-> "none",
     writes |-> {}, provisioner |-> FALSE, issued |-> {}]

\* what a registration meets and what it returns, before any is made
NoOracle == [add |-> << >>, verify |-> << >>, diag |-> "ok"]
NoOut == [err |-> Nil, remaining |-> << >>, diag |-> FALSE, targets |-> << >>]

\* The provisioner's local variables at the start of a pass.  lbID is its
\* variable lbID; status and extIP are the ProvisioningStatus and ExternalIP
\* of the LoadBalancerStatus it returns, empty when it returns an error;
\* getIPErr is the error of the last address fetch of the creation branch,
\* detail the response the update branch met.  retry is the
\* index of the iteration of the retry loop in progress.  targets,
\* remaining and lastErr are the variables of addTargetsWithRetry while it
\* runs, o is the cloud as that call meets it, ret the position the call
\* returns to and out what it returned.
NoLocal ==
    [i |-> 0, targetGroupIDs |-> << >>, lbID |-> << >>, status |-> "", extIP |-> << >>,
     detail |-> [err |-> FALSE, found |-> FALSE, hasStatus |-> FALSE, code |-> "none",
                 statusName |-> "", hasDomain |-> FALSE, domain |-> << >>, ipList |-> << >>],
     getIPErr |-> Nil, retry |-> 0, targets |-> << >>, remaining |-> << >>, lastErr |-> Nil,
     o |-> NoOracle, out |-> NoOut, ret |-> ""]

\* the record l with the further field f of value v
With(l, f, v) == [x \in (DOMAIN l) \cup {f} |-> IF x = f THEN v ELSE l[x]]

\* The return of addNodesToTargetGroup with the result out.  The port loop
\* logs the error and goes on (lines 380-385), and the variables of the
\* call are gone; a specification that applies the function alone returns to
\* "returned" and keeps them.
Return(l, out) ==
    IF l.ret = "returned" THEN [l EXCEPT !.out = out]
    ELSE [l EXCEPT !.retry = 0, !.targets = << >>, !.remaining = << >>, !.lastErr = Nil,
                   !.o = NoOracle, !.out = NoOut]

Ops(cs) == {cs[i].op : i \in 1..Len(cs)}

-----------------------------------------------------------------------------
(* Reconcile                                                               *)

\* A faulty Reconcile that removes the finalizer without running teardown
Dispatch_SkipTeardown(svc) ==
    IF svc.type # ServiceTypeLoadBalancer
    THEN [pc |-> "idle", exit |-> "not-loadbalancer", res |-> Result(0, Nil)]
    ELSE IF svc.deletionTimestamp
    THEN IF containsString(svc.finalizers, naverLBFinalizer)
         THEN [pc |-> "removeFinalizer", exit |-> "", res |-> Result(0, Nil)]
         ELSE [pc |-> "idle", exit |-> "deleting-no-finalizer", res |-> Result(0, Nil)]
    ELSE IF ~containsString(svc.finalizers, naverLBFinalizer)
    THEN [pc |-> "addFinalizer", exit |-> "", res |-> Result(0, Nil)]
    ELSE [pc |-> "reconcileNaverCloudLB", exit |-> "", res |-> Result(0, Nil)]

\* A faulty Reconcile without the type check
Dispatch_NoTypeCheck(svc) ==
    IF svc.deletionTimestamp
    THEN IF containsString(svc.finalizers, naverLBFinalizer)
         THEN [pc |-> "deleteNaverCloudLB", exit |-> "", res |-> Result(0, Nil)]
         ELSE [pc |-> "idle", exit |-> "deleting-no-finalizer", res |-> Result(0, Nil)]
    ELSE IF ~containsString(svc.finalizers, naverLBFinalizer)
    THEN [pc |-> "addFinalizer", exit |-> "", res |-> Result(0, Nil)]
    ELSE [pc |-> "reconcileNaverCloudLB", exit |-> "", res |-> Result(0, Nil)]

\* A faulty Reconcile that provisions without looking at the finalizer
Dispatch_NoFinalizerCheck(svc) ==
    IF svc.type # ServiceTypeLoadBalancer
    THEN [pc |-> "idle", exit |-> "not-loadbalancer", res |-> Result(0, Nil)]
    ELSE IF svc.deletionTimestamp
    THEN IF containsString(svc.finalizers, naverLBFinalizer)
         THEN [pc |-> "deleteNaverCloudLB", exit |-> "", res |-> Result(0, Nil)]
         ELSE [pc |-> "idle", exit |-> "deleting-no-finalizer", res |-> Result(0, Nil)]
    ELSE [pc |-> "reconcileNaverCloudLB", exit |-> "", res |-> Result(0, Nil)]

\* Where Reconcile goes after r.Get returned the object svc (lines 90-131):
\* the next position, or the return point and the returned result
Dispatch(svc) ==
    IF svc.type # ServiceTypeLoadBalancer
    THEN [pc |-> "idle", exit |-> "not-loadbalancer", res |-> Result(0, Nil)]
    ELSE IF svc.deletionTimestamp
    THEN IF containsString(svc.finalizers, naverLBFinalizer)
         THEN [pc |-> "deleteNaverCloudLB", exit |-> "", res |-> Result(0, Nil)]
         ELSE [pc |-> "idle", exit |-> "deleting-no-finalizer", res |-> Result(0, Nil)]
    ELSE IF ~containsString(svc.finalizers, naverLBFinalizer)
    THEN [pc |-> "addFinalizer", exit |-> "", res |-> Result(0, Nil)]
    ELSE [pc |-> "reconcileNaverCloudLB", exit |-> "", res |-> Result(0, Nil)]

\* Reconcile, lines 74-131: r.Get and the branch taken on the fetched object
ReconcileGet(getOk) ==
    /\ pc = "idle" /\ queued
    /\ LET d == IF ~getOk
                THEN [pc |-> "idle", exit |-> "get-error", res |-> Result(0, "GetError")]
                ELSE IF stored = NoService
                THEN [pc |-> "idle", exit |-> "not-found", res |-> Result(0, Nil)]
                ELSE Dispatch(stored)
           got == IF ~getOk THEN "error" ELSE IF stored = NoService THEN "notfound" ELSE "found"
       IN  /\ pc' = d.pc
           /\ service' = IF got = "found" THEN stored ELSE NoService
           /\ pass' = [EmptyPass EXCEPT !.fetched = got,
                                        !.startSvc = IF got = "found" THEN stored ELSE NoService,
                                        !.exit = d.exit]
           /\ result' = d.res
           /\ queued' = (d.exit # "" /\ Requeued(d.res))
    /\ calls' = << >>
    /\ stale' = FALSE
    /\ local' = NoLocal
    /\ UNCHANGED <<stored, created, parked, cloudLBs, cloudTGs, cloudListeners>>

\* the positions of the non-empty entries of svc's target-groups annotation
TargetGroupEntries(svc) ==
    IF svc = NoService THEN {}
    ELSE LET ids == Split(AnnGet(svc.annotations, TargetGroupsKey))
         IN  {i \in 1..Len(ids) : ids[i] # << >>}

\* Reconcile, lines 104-107: the teardown call and its error return.
\* lbOk and tgFail are the outcomes of the delete calls that are issued.
Teardown(lbOk, tgFail) ==
    /\ pc = "deleteNaverCloudLB"
    /\ LET r == deleteNaverCloudLB(service, lbOk, tgFail)
       IN  /\ lbOk \/ AnnGet(service.annotations, LbIdKey) # << >>
           /\ tgFail \subseteq TargetGroupEntries(service)
           /\ (r.err # Nil) => (tgFail = {})
           /\ calls' = r.calls
           /\ cloudLBs' = LBsAfter(cloudLBs, r.calls)
           /\ cloudTGs' = TGsAfter(cloudTGs, r.calls)
           /\ cloudListeners' = {l \in cloudListeners :
                                    l.lb \notin DeletedIds(r.calls, "DeleteLoadBalancerInstances")}
           /\ IF r.err # Nil
              THEN /\ pc' = "idle"
                   /\ result' = Result(30, r.err)
                   /\ queued' = TRUE
                   /\ pass' = [pass EXCEPT !.teardown = "err", !.exit = "teardown-error",
                                           !.issued = @ \cup Ops(r.calls)]
              ELSE /\ pc' = "removeFinalizer"
                   /\ pass' = [pass EXCEPT !.teardown = "ok", !.issued = @ \cup Ops(r.calls)]
                   /\ UNCHANGED <<result, queued>>
    /\ UNCHANGED <<stored, created, parked, service, local, stale>>

\* Reconcile, lines 109-116: remove the finalizer from the pass's copy and
\* write that copy back
RemoveFinalizer(updOk) ==
    /\ pc = "removeFinalizer"
    /\ LET obj == [service EXCEPT !.finalizers = removeString(@, naverLBFinalizer)]
       IN  /\ service' = obj
           /\ IF UpdateAccepted(updOk)
              THEN /\ stored' = AfterUpdate(obj)
                   /\ result' = Result(0, Nil)
                   /\ queued' = (queued \/ isLoadBalancerService(obj))
                   /\ pass' = [pass EXCEPT !.exit = "finalizer-removed",
                                           !.writes = @ \cup {"removeFinalizer"}]
              ELSE /\ result' = Result(0, "UpdateError")
                   /\ queued' = TRUE
                   /\ pass' = [pass EXCEPT !.exit = "finalizer-remove-failed"]
                   /\ UNCHANGED stored
    /\ pc' = "idle"
    /\ calls' = << >>
    /\ UNCHANGED <<created, parked, cloudLBs, cloudTGs, cloudListeners, local, stale>>

\* Reconcile, lines 119-128: add the finalizer to the pass's copy, write the
\* copy back and return
AddFinalizer(updOk) ==
    /\ pc = "addFinalizer"
    /\ LET obj == [service EXCEPT !.finalizers = Append(@, naverLBFinalizer)]
       IN  /\ service' = obj
           /\ IF UpdateAccepted(updOk)
              THEN /\ stored' = AfterUpdate(obj)
                   /\ result' = Result(0, Nil)
                   /\ queued' = (queued \/ isLoadBalancerService(obj))
                   /\ pass' = [pass EXCEPT !.exit = "finalizer-added",
                                           !.writes = @ \cup {"addFinalizer"}]
              ELSE /\ result' = Result(0, "UpdateError")
                   /\ queued' = TRUE
                   /\ pass' = [pass EXCEPT !.exit = "finalizer-add-failed"]
                   /\ UNCHANGED stored
    /\ pc' = "idle"
    /\ calls' = << >>
    /\ UNCHANGED <<created, parked, cloudLBs, cloudTGs, cloudListeners, local, stale>>

-----------------------------------------------------------------------------
(* The cloud account and the cluster as the provisioner sees them          *)

IdStr(n) == <<Digits[n + 1]>>
UsedIds == {l.id : l \in cloudLBs} \cup {t.id : t \in cloudTGs}
\* the identifier the cloud gives the next created resource
FreshId == IdStr(CHOOSE n \in 1..(Len(Digits) - 1) :
                    /\ IdStr(n) \notin UsedIds
                    /\ \A m \in 1..(n - 1) : IdStr(m) \in UsedIds)

Detail(err, found, hasStatus, code, statusName, hasDomain, domain, ipList) ==
    [err |-> err, found |-> found, hasStatus |-> hasStatus, code |-> code,
     statusName |-> statusName, hasDomain |-> hasDomain, domain |-> domain, ipList |-> ipList]

DomainA == <<"a", ".", "i", "o">>
AddressA == <<"1", ".", "2", ".", "3", ".", "4">>

RespErr == Detail(TRUE, FALSE, FALSE, "", "", FALSE, << >>, << >>)
RespMissing == Detail(FALSE, FALSE, FALSE, "", "", FALSE, << >>, << >>)
RespInit == Detail(FALSE, TRUE, TRUE, "INIT", "Creating", FALSE, << >>, << >>)
RespChanging == Detail(FALSE, TRUE, TRUE, "USED", "Changing", FALSE, << >>, <<AddressA>>)
RespFailed == Detail(FALSE, TRUE, TRUE, "ERROR", "Error", FALSE, << >>, << >>)
RespRunDomain == Detail(FALSE, TRUE, TRUE, "RUN", "Running", TRUE, DomainA, <<AddressA>>)
RespRunIP == Detail(FALSE, TRUE, TRUE, "RUN", "Running", FALSE, << >>, <<AddressA>>)
RespRunBare == Detail(FALSE, TRUE, TRUE, "RUN", "Running", TRUE, << >>, <<<< >>, AddressA>>)
RespNoStatus == Detail(FALSE, TRUE, FALSE, "", "", TRUE, DomainA, << >>)

\* the detail responses a single fetch may get
DetailResponses ==
    {RespErr, RespMissing, RespInit, RespChanging, RespFailed,
     RespRunDomain, RespRunIP, RespRunBare, RespNoStatus}

\* n copies of x
Repeat(x, n) == [k \in 1..n |-> x]

\* response sequences of the address retry loop: a domain at once, an IP
\* address after two failing fetches, neither domain nor IP, and no success
ResolveScenarios ==
    {Repeat(RespRunDomain, MaxAddressAttempts),
     <<RespErr, RespInit>> \o Repeat(RespRunIP, MaxAddressAttempts - 2),
     Repeat(RespRunBare, MaxAddressAttempts),
     Repeat(RespInit, MaxAddressAttempts)}

NodeAddr(ip) == <<[type |-> "Hostname", address |-> "h"], [type |-> "InternalIP", address |-> ip]>>
NoAnn == [x \in {} |-> << >>]

MasterNode ==
    [name |-> <<"m">>, labels |-> {ControlPlaneLabel}, taints |-> <<MasterLabel>>,
     addresses |-> NodeAddr("10.0.0.1"), providerID |-> <<"n", "/", "5", "0">>,
     annotations |-> NoAnn]
WorkerA ==
    [name |-> <<"a">>, labels |-> {}, taints |-> << >>,
     addresses |-> NodeAddr("10.0.0.2"), providerID |-> <<"n", "/", "k", "/", "5", "1">>,
     annotations |-> NoAnn]
WorkerB ==
    [name |-> <<"b">>, labels |-> {}, taints |-> << >>,
     addresses |-> NodeAddr("10.0.0.3"), providerID |-> << >>, annotations |-> NoAnn]

\* the cluster's nodes, in list order
Nodes == <<MasterNode, WorkerA, WorkerB>>

InstA == <<"5", "1">>
InstB == <<"5", "2">>

VServerGood ==
    [niErr |-> FALSE, niList |-> <<[ip |-> "10.0.0.3", instanceNo |-> InstB]>>,
     srvErr |-> FALSE, srvList |-> <<InstB>>, instErr |-> {},
     instIPs |-> [x \in {InstB} |-> {"10.0.0.3"}]]
VServerFallback == [VServerGood EXCEPT !.niErr = TRUE]
VServerDown == [VServerGood EXCEPT !.niErr = TRUE, !.srvErr = TRUE]

Registered(set) == [kind |-> "ok", registered |-> set]
ListFailed == [kind |-> "err", registered |-> {}]

RegOracle(nodeListOk, v, add, verify, diag) ==
    [nodeListOk |-> nodeListOk, vserver |-> [k \in 1..Len(Nodes) |-> v],
     add |-> add, verify |-> verify, diag |-> diag]

\* what node registration for one target group may meet: every lookup and
\* call succeeds; the interface listing fails, the first AddTarget call fails
\* and only one target registers; every lookup and call fails
RegistrationScenarios ==
    {RegOracle(TRUE, VServerGood, <<TRUE, TRUE, TRUE>>,
               Repeat(Registered({InstA, InstB}), MaxAddRetries), "ok"),
     RegOracle(TRUE, VServerFallback, <<FALSE, TRUE, TRUE>>,
               Repeat(Registered({InstA}), MaxAddRetries), "noTargets"),
     RegOracle(TRUE, VServerDown, <<FALSE, FALSE, FALSE>>,
               Repeat(ListFailed, MaxAddRetries), "detailErr")}

\* what the wait for the load balancer and the listener creation may meet:
\* the poll responses, whether the listener listing succeeds and the port
\* indexes whose listener create call fails
ListenerScenarios ==
    {[polls |-> Repeat(RespRunIP, MaxReadyRetries), listOk |-> TRUE, failing |-> {}],
     [polls |-> <<RespErr, RespInit>> \o Repeat(RespRunDomain, MaxReadyRetries - 2),
      listOk |-> FALSE, failing |-> {}],
     [polls |-> Repeat(RespChanging, MaxReadyRetries), listOk |-> TRUE, failing |-> {0}]}

-----------------------------------------------------------------------------
(* reconcileNaverCloudLB: the creation branch                              *)

\* A faulty lookup that finds nothing
findByName_Never(resources, name) == << >>

\* A faulty lookup that takes a listed resource without comparing names
findByName_AnyListed(resources, name) ==
    IF resources = {} THEN << >> ELSE (CHOOSE r \in resources : TRUE).id

\* The lookup loops of lines 314-320 and 419-431: the id of the listed
\* resource called name, "" when there is none
findByName(resources, name) ==
    IF \E r \in resources : r.name = name
    THEN (CHOOSE r \in resources : r.name = name).id
    ELSE << >>

\* A faulty search that never finds the load balancer
findLoadBalancerByName_Never(listOk, lbs, lbName) == << >>

\* Lines 416-432: the search for the load balancer of the name after a
\* duplicate-name error; "" when the listing fails or shows none
findLoadBalancerByName(listOk, lbs, lbName) ==
    IF listOk THEN findByName(lbs, lbName) ELSE << >>

\* A faulty Reconcile that returns the provisioner's error without a requeue delay
ProvisionerError_NoDelay(err) == Result(0, err)

\* The provisioner's error return, seen from Reconcile (lines 131-138)
ProvisionerError(err) == Result(30, err)

\* reconcileNaverCloudLB, lines 274-380, one iteration of the port loop up to
\* the first AddTarget call of node registration (lines 992-1049, 1521-1545).
\* create: the outcome of CreateTargetGroup ("created", "empty" for a success
\* without a target group in the response, "error", "errorCreated" for an
\* error after which the group exists); listOk: GetTargetGroupList succeeds;
\* getOk, updOk: the Get and Update of the annotation write; reg: what node
\* registration meets.
CreateTargetGroup(create, listOk, getOk, updOk, reg) ==
    /\ \/ pc = "reconcileNaverCloudLB" /\ ~AnnHas(service.annotations, LbIdKey)
       \/ pc = "createTargetGroup"
    /\ local.i < Len(service.ports)
    /\ LET i == local.i
           tgName == tgNameOf(service, i)
           nameTaken == \E t \in cloudTGs : t.name = tgName
           made == create \in {"created", "errorCreated"}
           failed == create \in {"error", "errorCreated"}
           tgs1 == IF made THEN cloudTGs \cup {[id |-> FreshId, name |-> tgName]} ELSE cloudTGs
           matches == {t \in tgs1 : t.name = tgName}
           adopted == IF listOk THEN findByName(tgs1, tgName) ELSE << >>
           targetGroupID == IF create = "created" THEN FreshId
                            ELSE IF failed THEN adopted ELSE << >>
           cloudCalls == <<Call("CreateTargetGroup", tgName, ~failed)>>
                         \o (IF failed THEN <<Call("GetTargetGroupList", << >>, listOk)>> ELSE << >>)
           tempOk == getOk /\ stored # NoService
           existingGroups == IF tempOk /\ AnnGet(stored.annotations, TargetGroupsKey) # << >>
                             THEN Split(AnnGet(stored.annotations, TargetGroupsKey)) ELSE << >>
           alreadyExists == containsString(existingGroups, targetGroupID)
           tempService == [stored EXCEPT !.annotations =
                               AnnSet(@, TargetGroupsKey, Join(Append(existingGroups, targetGroupID)))]
           written == tempOk /\ ~alreadyExists /\ updOk
           a == addNodesToTargetGroup(Nodes, reg)
           next == IF i + 1 >= Len(service.ports)
                   THEN "createLoadBalancer" ELSE "createTargetGroup"
       IN  /\ nameTaken => ~made
           /\ failed \/ listOk
           /\ (targetGroupID = << >>) => (getOk /\ updOk)
           /\ (~tempOk \/ alreadyExists) => updOk
           /\ cloudTGs' = tgs1
           /\ IF targetGroupID = << >>
              THEN /\ pc' = "idle"
                   /\ result' = ProvisionerError("CreateTargetGroupFailed")
                   /\ queued' = TRUE
                   /\ calls' = cloudCalls
                   /\ pass' = [pass EXCEPT !.provisioner = TRUE, !.exit = "provisioner-error",
                                           !.issued = @ \cup Ops(cloudCalls)]
                   /\ UNCHANGED <<stored, stale, local>>
              ELSE /\ pc' = IF a.enters THEN "addTargetsWithRetry" ELSE next
                   /\ local' = [local EXCEPT !.i = i + 1,
                                             !.targetGroupIDs = Append(@, targetGroupID),
                                             !.ret = next,
                                             !.targets = a.targets,
                                             !.remaining = a.targets,
                                             !.o = IF a.enters THEN reg ELSE NoOracle]
                   /\ stored' = IF written THEN AfterUpdate(tempService) ELSE stored
                   /\ stale' = (stale \/ written)
                   /\ queued' = (queued \/ (written /\ isLoadBalancerService(tempService)))
                   /\ calls' = cloudCalls \o a.calls
                   /\ pass' = [pass EXCEPT !.provisioner = TRUE,
                                           !.issued = @ \cup Ops(cloudCalls \o a.calls),
                                           !.writes = IF written THEN @ \cup {"target-groups"} ELSE @]
                   /\ UNCHANGED result
    /\ UNCHANGED <<created, parked, cloudLBs, cloudListeners, service>>

\* addTargetsWithRetry, lines 1521-1652, one round of its retry loop: the
\* AddTarget call and the verification listing; the round that ends the
\* loop goes on to the final status check and the return.  A step ends
\* where the function sleeps (line 1582).
AddTargetsWithRetry ==
    /\ pc = "addTargetsWithRetry"
    /\ IF Len(local.targets) = 0
       THEN /\ pc' = local.ret
            /\ local' = Return(local, NoOut)
            /\ UNCHANGED <<calls, pass>>
       ELSE LET rd == addTargetsLoop(local.remaining, local.retry, local.lastErr, local.o)
                done == retryLoopDone(rd.remaining, local.retry + 1)
                res == addTargetsResult(local.targets, rd.remaining, local.o)
                cs == IF done THEN rd.calls \o res.calls ELSE rd.calls
                after == [local EXCEPT !.remaining = rd.remaining, !.lastErr = rd.lastErr,
                                       !.retry = @ + 1]
            IN  /\ calls' = calls \o cs
                /\ pass' = [pass EXCEPT !.issued = @ \cup Ops(cs)]
                /\ pc' = IF done THEN local.ret ELSE pc
                /\ local' = IF done
                            THEN Return(after, [err |-> res.err, remaining |-> rd.remaining,
                                                diag |-> res.diag, targets |-> local.targets])
                            ELSE after
    /\ UNCHANGED <<stored, created, parked, cloudLBs, cloudTGs, cloudListeners, queued, service,
                   stale, result>>

\* reconcileNaverCloudLB, lines 394-450: create the load balancer, or adopt
\* the one of the same name after a duplicate-name error.  create: "created",
\* "empty" (success without an instance in the response), "duplicate", "error"
CreateLoadBalancer(create, listOk) ==
    /\ \/ pc = "createLoadBalancer"
       \/ /\ pc = "reconcileNaverCloudLB" /\ ~AnnHas(service.annotations, LbIdKey)
          /\ Len(service.ports) = 0
    /\ LET lbName == lbNameOf(service)
           nameTaken == \E l \in cloudLBs : l.name = lbName
           made == create = "created"
           lbs1 == IF made THEN cloudLBs \cup {[id |-> FreshId, name |-> lbName]} ELSE cloudLBs
           matches == {l \in lbs1 : l.name = lbName}
           adopted == findLoadBalancerByName(listOk, lbs1, lbName)
           lbID == IF create = "created" THEN FreshId
                   ELSE IF create = "duplicate" THEN adopted ELSE << >>
           cloudCalls == <<Call("CreateLoadBalancerInstance", lbName, create \in {"created", "empty"})>>
                         \o (IF create = "duplicate"
                             THEN <<Call("GetLoadBalancerInstanceList", << >>, listOk)>> ELSE << >>)
       IN  /\ nameTaken => ~made
           /\ (create = "duplicate") => nameTaken
           /\ (create = "duplicate") \/ listOk
           /\ cloudLBs' = lbs1
           /\ calls' = cloudCalls
           /\ IF lbID = << >>
              THEN /\ pc' = "idle"
                   /\ result' = ProvisionerError("CreateLoadBalancerFailed")
                   /\ queued' = TRUE
                   /\ pass' = [pass EXCEPT !.provisioner = TRUE, !.exit = "provisioner-error",
                                           !.issued = @ \cup Ops(cloudCalls)]
                   /\ UNCHANGED local
              ELSE /\ pc' = "waitForLoadBalancerReady"
                   /\ local' = [local EXCEPT !.lbID = lbID]
                   /\ pass' = [pass EXCEPT !.provisioner = TRUE,
                                           !.issued = @ \cup Ops(cloudCalls)]
                   /\ UNCHANGED <<result, queued>>
    /\ UNCHANGED <<stored, created, parked, cloudTGs, cloudListeners, service, stale>>

\* the detail fetches 1..n answered by resps
DetailCalls(lbID, resps, n) ==
    [k \in 1..n |-> Call("GetLoadBalancerInstanceDetail", lbID, ~resps[k].err)]

\* A faulty listener loop that gives up at the first failed create call
RECURSIVE createListeners_StopAtFailure(_, _, _, _, _, _)
createListeners_StopAtFailure(ports, targetGroupIDs, existingListeners, failing, lbID, i) ==
    IF Len(targetGroupIDs) = 0 \/ i >= Len(ports) THEN << >>
    ELSE LET rest == createListeners_StopAtFailure(ports, targetGroupIDs, existingListeners,
                                                   failing, lbID, i + 1)
             c == Call("CreateLoadBalancerListener",
                       [lb |-> lbID, port |-> ports[i + 1].port, tg |-> targetGroupIDs[i + 1]],
                       i \notin failing)
         IN  IF i >= Len(targetGroupIDs) \/ ports[i + 1].port \in existingListeners
             THEN rest
             ELSE IF i \in failing THEN <<c>> ELSE <<c>> \o rest

\* The listener loop, lines 482-520, from 0-based port index i on: the
\* create calls issued.  failing: the indexes whose create call fails.
RECURSIVE createListeners(_, _, _, _, _, _)
createListeners(ports, targetGroupIDs, existingListeners, failing, lbID, i) ==
    IF Len(targetGroupIDs) = 0 \/ i >= Len(ports) THEN << >>
    ELSE LET rest == createListeners(ports, targetGroupIDs, existingListeners, failing, lbID, i + 1)
         IN  IF i >= Len(targetGroupIDs) \/ ports[i + 1].port \in existingListeners
             THEN rest
             ELSE <<Call("CreateLoadBalancerListener",
                         [lb |-> lbID, port |-> ports[i + 1].port, tg |-> targetGroupIDs[i + 1]],
                         i \notin failing)>> \o rest

\* reconcileNaverCloudLB, line 453: one iteration of the readiness poll of
\* waitForLoadBalancerReady (lines 722-774), the fetch answered by resp and
\* the sleep after it.  The error the poll returns is logged and the pass
\* goes on (lines 453-458).
WaitForLoadBalancerReady(resp) ==
    /\ pc = "waitForLoadBalancerReady"
    /\ local.retry < MaxReadyRetries
    /\ LET w == waitForLoadBalancerReady(resp, MaxReadyRetries, local.retry)
           c == Call("GetLoadBalancerInstanceDetail", local.lbID, ~resp.err)
       IN  /\ calls' = IF local.retry = 0 THEN <<c>> ELSE Append(calls, c)
           /\ pass' = [pass EXCEPT !.issued = @ \cup Ops(<<c>>)]
           /\ pc' = IF w.done THEN "createListeners" ELSE pc
           /\ local' = [local EXCEPT !.retry = IF w.done THEN 0 ELSE @ + 1]
    /\ UNCHANGED <<stored, created, parked, cloudLBs, cloudTGs, cloudListeners, queued, service,
                   stale, result>>

\* reconcileNaverCloudLB, lines 460-520: list the listeners of the load
\* balancer and create the missing ones.  listOk: the listener listing
\* succeeds; failing: the port indexes whose listener create call fails.
CreateListeners(listOk, failing) ==
    /\ pc = "createListeners"
    /\ LET lbID == local.lbID
           mine == {l \in cloudListeners : l.lb = lbID}
           existingListeners == IF listOk THEN {l.port : l \in mine} ELSE {}
           cs == createListeners(service.ports, local.targetGroupIDs, existingListeners,
                                 failing, lbID, 0)
           all == <<Call("GetLoadBalancerListenerList", lbID, listOk)>> \o cs
       IN  /\ \A k \in 1..Len(cs) :
                (\E l \in mine : l.port = cs[k].arg.port) => ~cs[k].ok
           /\ \A i \in failing : /\ i < Len(service.ports)
                                  /\ \E k \in 1..Len(cs) : cs[k].arg.port = service.ports[i + 1].port
           /\ cloudListeners' = cloudListeners \cup {cs[k].arg : k \in {j \in 1..Len(cs) : cs[j].ok}}
           /\ calls' = calls \o all
           /\ pass' = [pass EXCEPT !.issued = @ \cup Ops(all)]
    /\ pc' = "getExternalAddress"
    /\ UNCHANGED <<stored, created, parked, cloudLBs, cloudTGs, queued, service, local, stale, result>>

\* A faulty updateServiceAnnotations that never finds anything to write
updateServiceAnnotations_Never(latest, annotations) ==
    [obj |-> latest, updated |-> FALSE]

\* A faulty updateServiceAnnotations that replaces the whole annotation map
updateServiceAnnotations_Replace(latest, annotations) ==
    [obj |-> [latest EXCEPT !.annotations = annotations],
     updated |-> \E k \in DOMAIN annotations : AnnGet(latest.annotations, k) # annotations[k]]

\* A faulty updateServiceAnnotations that writes whatever the values are
updateServiceAnnotations_AlwaysWrite(latest, annotations) ==
    [obj |-> [latest EXCEPT !.annotations =
                 [x \in (DOMAIN @) \cup (DOMAIN annotations) |->
                     IF x \in DOMAIN annotations THEN annotations[x] ELSE @[x]]],
     updated |-> TRUE]

\* updateServiceAnnotations on the freshly read object latest: the object to
\* write and whether a write is needed
updateServiceAnnotations(latest, annotations) ==
    LET changed == {k \in DOMAIN annotations : AnnGet(latest.annotations, k) # annotations[k]}
    IN  [obj |-> [latest EXCEPT !.annotations =
                     [x \in (DOMAIN @) \cup changed |->
                         IF x \in changed THEN annotations[x] ELSE @[x]]],
         updated |-> changed # {}]

\* reconcileNaverCloudLB, lines 522-567: annotate the pass's copy (before the
\* first fetch) and make one iteration of the address retry loop, the fetch
\* answered by resp and the sleep after a failed one.  The iteration that
\* ends the loop leaves the address, or the fallback hostname after a
\* failed last fetch (lines 563-567), and the error of the last fetch.
GetExternalAddress(resp) ==
    /\ pc = "getExternalAddress"
    /\ local.retry < MaxAddressAttempts
    /\ LET lbID == local.lbID
           withLb == AnnSet(service.annotations, LbIdKey, lbID)
           r == resolveWithRetry(lbID, resp, local.retry)
           c == Call("GetLoadBalancerInstanceDetail", lbID, ~resp.err)
       IN  /\ service' = [service EXCEPT !.annotations =
                             IF Len(local.targetGroupIDs) > 0
                             THEN AnnSet(withLb, TargetGroupsKey, Join(local.targetGroupIDs))
                             ELSE withLb]
           /\ calls' = IF local.retry = 0 THEN <<c>> ELSE Append(calls, c)
           /\ pass' = [pass EXCEPT !.issued = @ \cup Ops(<<c>>)]
           /\ pc' = IF r.done THEN "updateServiceAnnotations" ELSE pc
           /\ local' = IF r.done
                       THEN [local EXCEPT !.retry = 0,
                                          !.getIPErr = r.err,
                                          !.extIP = IF r.err # Nil THEN FallbackHostname(lbID)
                                                    ELSE r.addr]
                       ELSE [local EXCEPT !.retry = @ + 1]
    /\ UNCHANGED <<stored, created, parked, cloudLBs, cloudTGs, cloudListeners, queued, stale,
                   result>>

\* reconcileNaverCloudLB, lines 571-594: persist the lb-id annotation on a
\* freshly read object.  When that fails the provisioner returns the error
\* and an empty LoadBalancerStatus; otherwise it returns PENDING after a
\* failed last address fetch and ACTIVE after a successful one.
PersistLbId(getOk, updOk) ==
    /\ pc = "updateServiceAnnotations"
    /\ LET latestOk == getOk /\ stored # NoService
           u == updateServiceAnnotations(stored, [x \in {LbIdKey} |-> local.lbID])
           written == latestOk /\ u.updated /\ updOk
           failed == ~latestOk \/ (u.updated /\ ~updOk)
       IN  /\ (~latestOk \/ ~u.updated) => updOk
           /\ stored' = IF written THEN AfterUpdate(u.obj) ELSE stored
           /\ stale' = (stale \/ written)
           /\ IF failed
              THEN /\ pc' = "idle"
                   /\ result' = ProvisionerError("UpdateAnnotationsFailed")
                   /\ queued' = TRUE
                   /\ pass' = [pass EXCEPT !.exit = "provisioner-error"]
                   /\ local' = [local EXCEPT !.status = "", !.extIP = << >>]
              ELSE /\ pc' = "projectStatus"
                   /\ queued' = (queued \/ (written /\ isLoadBalancerService(u.obj)))
                   /\ pass' = [pass EXCEPT !.writes = IF written THEN @ \cup {"lb-id"} ELSE @]
                   /\ local' = [local EXCEPT !.status = IF local.getIPErr # Nil
                                                        THEN "PENDING" ELSE "ACTIVE"]
                   /\ UNCHANGED result
    /\ UNCHANGED <<created, parked, cloudLBs, cloudTGs, cloudListeners, service, calls>>

\* reconcileNaverCloudLB, lines 597-622: the update branch, taken when the
\* pass's copy carries the lb-id annotation.  It returns ACTIVE with the
\* address, or the error of the fetch and an empty LoadBalancerStatus.
UpdateLoadBalancer(resp) ==
    /\ pc = "reconcileNaverCloudLB" /\ AnnHas(service.annotations, LbIdKey)
    /\ LET lbID == AnnGet(service.annotations, LbIdKey)
           r == getLoadBalancerExternalAddress(lbID, resp)
           cs == DetailCalls(lbID, <<resp>>, 1)
       IN  /\ calls' = cs
           /\ local' = [local EXCEPT !.lbID = lbID,
                                     !.status = IF r.err # Nil THEN "" ELSE "ACTIVE",
                                     !.extIP = IF r.err # Nil THEN << >> ELSE r.addr,
                                     !.detail = resp]
           /\ IF r.err # Nil
              THEN /\ pc' = "idle"
                   /\ result' = ProvisionerError(r.err)
                   /\ queued' = TRUE
                   /\ pass' = [pass EXCEPT !.provisioner = TRUE, !.exit = "provisioner-error",
                                           !.issued = @ \cup Ops(cs)]
              ELSE /\ pc' = "projectStatus"
                   /\ pass' = [pass EXCEPT !.provisioner = TRUE, !.issued = @ \cup Ops(cs)]
                   /\ UNCHANGED <<result, queued>>
    /\ UNCHANGED <<stored, created, parked, cloudLBs, cloudTGs, cloudListeners, service, stale>>

\* Reconcile, lines 161-171: the ingress entry for an external address
IngressFor(externalIP) ==
    IF ipPatternMatch(externalIP)
    THEN [ip |-> externalIP, hostname |-> << >>]
    ELSE [ip |-> << >>, hostname |-> externalIP]

\* A faulty comparison that always asks for the write
NeedsStatusUpdate_Always(current, ingress) == TRUE

\* Reconcile, lines 197-199: the stored ingress differs from the wanted one
NeedsStatusUpdate(current, ingress) ==
    \/ Len(current) = 0
    \/ ingress.ip # << >> /\ (Len(current) = 0 \/ current[1].ip # ingress.ip)
    \/ ingress.hostname # << >> /\ (Len(current) = 0 \/ current[1].hostname # ingress.hostname)

\* A faulty check that takes only CREATING for a load balancer in the making
isProvisioning_OnlyCreating(status) == status = "CREATING"

\* Reconcile, line 141: the load balancer is still being provisioned
isProvisioning(status) == status \in {"PENDING", "CREATING"}

\* Reconcile, lines 182-194: the annotations of the freshly read object
\* latest as sent with the status: lb-id is set to a non-empty lbID, and the
\* ports annotation of the pass's copy svc is carried over
statusAnnotations(latest, svc, lbID) ==
    LET withLb == IF lbID # << >> THEN AnnSet(latest.annotations, LbIdKey, lbID)
                  ELSE latest.annotations
    IN  IF AnnHas(svc.annotations, PortsKey)
        THEN AnnSet(withLb, PortsKey, AnnGet(svc.annotations, PortsKey))
        ELSE withLb

\* Reconcile, lines 140-224: requeue on PENDING/CREATING and ERROR, else
\* project the external address into the Service status; the object sent by
\* r.Status().Update carries the annotations set on it in lines 182-194
ProjectStatus(getOk, updOk) ==
    /\ pc = "projectStatus"
    /\ LET ingress == IngressFor(local.extIP)
           latestOk == getOk /\ stored # NoService
           needed == latestOk /\ NeedsStatusUpdate(stored.ingress, ingress)
           d == IF isProvisioning(local.status)
                THEN [exit |-> "pending", res |-> Result(30, Nil), write |-> FALSE]
                ELSE IF local.status = "ERROR"
                THEN [exit |-> "error-state", res |-> Result(60, "ErrorState"), write |-> FALSE]
                ELSE IF local.extIP = << >>
                THEN [exit |-> "done", res |-> Result(0, Nil), write |-> FALSE]
                ELSE IF ~latestOk
                THEN [exit |-> "status-get-failed", res |-> Result(5, "GetError"), write |-> FALSE]
                ELSE IF ~needed
                THEN [exit |-> "done", res |-> Result(0, Nil), write |-> FALSE]
                ELSE IF ~updOk
                THEN [exit |-> "status-update-failed", res |-> Result(5, "UpdateError"), write |-> FALSE]
                ELSE [exit |-> "done", res |-> Result(0, Nil), write |-> TRUE]
           reachedGet == local.status = "ACTIVE" /\ local.extIP # << >>
       IN  /\ ~reachedGet => (getOk /\ updOk)
           /\ (reachedGet /\ ~needed) => updOk
           /\ stored' = IF d.write
                        THEN [stored EXCEPT
                                 !.annotations = statusAnnotations(stored, service, local.lbID),
                                 !.ingress = <<ingress>>]
                        ELSE stored
           /\ stale' = (stale \/ d.write)
           /\ result' = d.res
           /\ queued' = (queued \/ Requeued(d.res) \/ (d.write /\ isLoadBalancerService(stored)))
           /\ pass' = [pass EXCEPT !.exit = d.exit,
                                   !.writes = IF d.write THEN @ \cup {"status"} ELSE @]
    /\ pc' = "idle"
    /\ UNCHANGED <<created, parked, cloudLBs, cloudTGs, cloudListeners, service, local, calls>>

-----------------------------------------------------------------------------
(* The user and the cluster                                                *)

WebName == <<"w", "e", "b">>
Port(port, nodePort, protocol) == [port |-> port, nodePort |-> nodePort, protocol |-> protocol]

Svc(type, finalizers, annotations, ports) ==
    [type |-> type, deletionTimestamp |-> FALSE, finalizers |-> finalizers,
     annotations |-> annotations, ports |-> ports, ingress |-> << >>,
     namespace |-> DefaultNamespace, name |-> WebName]

OneAnn(k, v) == [x \in {k} |-> v]
TwoAnn(lb, tgs) == [x \in {LbIdKey, TargetGroupsKey} |-> IF x = LbIdKey THEN lb ELSE tgs]

\* the annotation maps a user-supplied Service may carry
AnnotationInputs ==
    {NoAnn,
     OneAnn(LbIdKey, <<"7">>),
     OneAnn(LbIdKey, << >>),
     OneAnn(TargetGroupsKey, <<",", "1", ",", ",", "2", ",">>),
     TwoAnn(<<"7">>, <<"1", ",", "2">>),
     TwoAnn(<<"7">>, << >>)}

OnePort == <<Port(80, 30080, "TCP")>>
TwoPorts == <<Port(80, 30080, "TCP"), Port(53, 30053, "UDP")>>

\* the Services a user may create: LoadBalancer Services with one port and
\* any of the annotation maps, with or without the finalizer; a fresh
\* two-port LoadBalancer Service; and Services of another type, fresh or
\* carrying the controller's finalizer and annotations
ServiceInputs ==
    {Svc(ServiceTypeLoadBalancer, f, a, OnePort) :
        f \in {<< >>, <<naverLBFinalizer>>}, a \in AnnotationInputs}
    \cup {Svc(ServiceTypeLoadBalancer, << >>, NoAnn, TwoPorts),
          Svc("ClusterIP", << >>, NoAnn, OnePort),
          Svc("ClusterIP", <<naverLBFinalizer>>, TwoAnn(<<"7">>, <<"1", ",", "2">>), OnePort)}

\* the entry positions the target-groups annotation of a Service may have:
\* those of the user-supplied annotation and one more for every port, whose
\* target group the port loop appends (lines 351-363)
EntryPositions ==
    UNION {1..(Len(Split(AnnGet(s.annotations, TargetGroupsKey))) + Len(s.ports)) :
              s \in ServiceInputs}

\* the 0-based indexes of the ports a Service may have
PortIndexes == UNION {0..(Len(s.ports) - 1) : s \in ServiceInputs}

\* kubectl create: the Service appears in the store
UserCreate(s) ==
    /\ stored = NoService /\ ~created
    /\ stored' = s
    /\ created' = TRUE
    /\ queued' = (queued \/ isLoadBalancerService(s))
    /\ UNCHANGED <<parked, cloudLBs, cloudTGs, cloudListeners, pc, service, local, stale, calls, pass, result>>

\* kubectl delete: the API server sets the deletion timestamp, or removes
\* the object at once when it has no finalizer
UserDelete ==
    /\ stored # NoService /\ ~stored.deletionTimestamp
    /\ stored' = IF stored.finalizers = << >> THEN NoService
                 ELSE [stored EXCEPT !.deletionTimestamp = TRUE]
    /\ queued' = (queued \/ isLoadBalancerService(stored))
    /\ stale' = (pc # "idle")
    /\ UNCHANGED <<created, parked, cloudLBs, cloudTGs, cloudListeners, pc, service, local, calls, pass, result>>

\* the user changes spec.type of a LoadBalancer Service to t; the event
\* filter sees the new object
UserChangeType(t) ==
    /\ isLoadBalancerService(stored) /\ stored.type # t
    /\ stored' = [stored EXCEPT !.type = t]
    /\ queued' = (queued \/ isLoadBalancerService(stored'))
    /\ stale' = (pc # "idle")
    /\ UNCHANGED <<created, parked, cloudLBs, cloudTGs, cloudListeners, pc, service, local, calls, pass, result>>

-----------------------------------------------------------------------------
(* The specification                                                       *)

OldLbName == <<"o", "l", "d">>
OldTgName(n) == <<"o", "l", "d", "-">> \o IdStr(n)

\* After construction: no Service, an idle controller, and a cloud account
\* that already holds load balancer 7 and target groups 1 and 2
Init ==
    /\ stored = NoService
    /\ created = FALSE
    /\ parked = {}
    /\ cloudLBs = {[id |-> IdStr(7), name |-> OldLbName]}
    /\ cloudTGs = {[id |-> IdStr(n), name |-> OldTgName(n)] : n \in {1, 2}}
    /\ cloudListeners = {}
    /\ queued = FALSE
    /\ pc = "idle"
    /\ service = NoService
    /\ local = NoLocal
    /\ stale = FALSE
    /\ calls = << >>
    /\ pass = EmptyPass
    /\ result = Result(0, Nil)

Next ==
    \/ \E s \in ServiceInputs : UserCreate(s)
    \/ UserDelete
    \/ \E t \in {"ClusterIP"} : UserChangeType(t)
    \/ \E getOk \in BOOLEAN : ReconcileGet(getOk)
    \/ \E lbOk \in BOOLEAN, tgFail \in SUBSET EntryPositions : Teardown(lbOk, tgFail)
    \/ \E updOk \in BOOLEAN : RemoveFinalizer(updOk)
    \/ \E updOk \in BOOLEAN : AddFinalizer(updOk)
    \/ \E create \in {"created", "empty", "error", "errorCreated"},
          listOk \in BOOLEAN, getOk \in BOOLEAN, updOk \in BOOLEAN,
          reg \in RegistrationScenarios : CreateTargetGroup(create, listOk, getOk, updOk, reg)
    \/ \E create \in {"created", "empty", "duplicate", "error"}, listOk \in BOOLEAN :
          CreateLoadBalancer(create, listOk)
    \/ AddTargetsWithRetry
    \/ \E o \in ListenerScenarios : WaitForLoadBalancerReady(o.polls[local.retry + 1])
    \/ \E listOk \in BOOLEAN, failing \in SUBSET PortIndexes : CreateListeners(listOk, failing)
    \/ \E resps \in ResolveScenarios : GetExternalAddress(resps[local.retry + 1])
    \/ \E getOk \in BOOLEAN, updOk \in BOOLEAN : PersistLbId(getOk, updOk)
    \/ \E resp \in DetailResponses : UpdateLoadBalancer(resp)
    \/ \E getOk \in BOOLEAN, updOk \in BOOLEAN : ProjectStatus(getOk, updOk)

Spec == Init /\ [][Next]_vars

-----------------------------------------------------------------------------
(* Properties of the teardown orchestrator                                 *)

HasFinalizer(obj) == obj # NoService /\ containsString(obj.finalizers, naverLBFinalizer)

\* calls holds the call log of the teardown of the current pass
TeardownRan == pass.teardown # "none" /\ (pc = "removeFinalizer" \/ pass.exit = "teardown-error")

\* the operation and argument of every call of the latest step, in order
Issued == [k \in 1..Len(calls) |-> [op |-> calls[k].op, arg |-> calls[k].arg]]

\* the load-balancer delete call the annotations of svc ask for
ExpectedLbDelete(svc) ==
    IF AnnHas(svc.annotations, LbIdKey) /\ AnnGet(svc.annotations, LbIdKey) # << >>
    THEN <<[op |-> "DeleteLoadBalancerInstances", arg |-> AnnGet(svc.annotations, LbIdKey)]>>
    ELSE << >>

\* the target-group delete calls the annotations of svc ask for, in list order
ExpectedTgDeletes(svc) ==
    LET ids == SelectSeq(Split(AnnGet(svc.annotations, TargetGroupsKey)), LAMBDA e : e # << >>)
    IN  [k \in 1..Len(ids) |-> [op |-> "DeleteTargetGroups", arg |-> ids[k]]]

\* C1: in the call log of a teardown, the load-balancer delete call comes
\* strictly before every target-group delete call; no target-group delete
\* call precedes the load-balancer delete call of the same teardown.
C1_LbDeleteBeforeTgDelete ==
    \A i \in 1..Len(calls) : \A j \in 1..Len(calls) :
        (calls[i].op = "DeleteLoadBalancerInstances" /\ calls[j].op = "DeleteTargetGroups")
            => i < j

\* a teardown that issued both a load-balancer and a target-group delete call
C1_Witness ==
    /\ TeardownRan
    /\ \E i \in 1..Len(calls) : calls[i].op = "DeleteLoadBalancerInstances"
    /\ \E j \in 1..Len(calls) : calls[j].op = "DeleteTargetGroups"

\* C2: the stored Service loses the finalizer only by the finalizer-removal
\* step of a pass over a deleting Service whose teardown returned without
\* error; and after a pass whose teardown returned an error the stored
\* Service still carries the finalizer and Reconcile returned that error
\* with RequeueAfter 30 seconds.
C2_FinalizerRemovedOnlyAfterTeardown ==
    /\ [](pass.exit = "teardown-error"
            => /\ HasFinalizer(stored)
               /\ pass.teardown = "err"
               /\ "removeFinalizer" \notin pass.writes
               /\ result = Result(30, "DeleteLoadBalancerFailed"))
    /\ [][(HasFinalizer(stored) /\ ~HasFinalizer(stored'))
            => /\ pc = "removeFinalizer"
               /\ pass.teardown = "ok"
               /\ pass.startSvc.deletionTimestamp
               /\ HasFinalizer(pass.startSvc)]_vars

\* a pass whose teardown failed, and the Service still holds the finalizer
C2_Witness ==
    /\ pass.exit = "teardown-error"
    /\ result.RequeueAfter = 30
    /\ HasFinalizer(stored) /\ stored.deletionTimestamp

\* C3: whenever a pass has removed the finalizer from a deleting Service,
\* the load balancer named by its lb-id annotation and every target group
\* listed in its target-groups annotation are gone from the cloud account.
C3_FinalizerGatesCleanup ==
    (pass.exit = "finalizer-removed")
        => LET s == pass.startSvc
               ids == Split(AnnGet(s.annotations, TargetGroupsKey))
           IN  /\ AnnGet(s.annotations, LbIdKey) \notin {l.id : l \in cloudLBs}
               /\ \A k \in 1..Len(ids) : ids[k] \notin {t.id : t \in cloudTGs}

\* C4 as stated: one teardown issues the load-balancer delete call iff lb-id
\* is present and non-empty, followed by one target-group delete call per
\* non-empty entry of target-groups in list order; with nothing to delete it
\* issues no call and returns success.
C4_TeardownCallsAsStated ==
    TeardownRan
        => /\ Issued = ExpectedLbDelete(service) \o ExpectedTgDeletes(service)
           /\ (ExpectedLbDelete(service) \o ExpectedTgDeletes(service) = << >>)
                => (calls = << >> /\ pass.teardown = "ok")

\* C4, amended: a teardown whose load-balancer delete call does not fail
\* issues that call iff lb-id is present and non-empty, followed by one
\* target-group delete call per non-empty entry of target-groups in list
\* order, and with nothing to delete issues no call and returns success; a
\* teardown whose load-balancer delete call fails issues that call only.
C4_TeardownCalls ==
    TeardownRan
        => IF pass.teardown = "err"
           THEN Issued = ExpectedLbDelete(service) /\ Len(calls) = 1 /\ ~calls[1].ok
           ELSE /\ Issued = ExpectedLbDelete(service) \o ExpectedTgDeletes(service)
                /\ (ExpectedLbDelete(service) \o ExpectedTgDeletes(service) = << >>)
                     => calls = << >>

\* a successful teardown over a target-groups annotation with empty entries
C4_Witness ==
    /\ TeardownRan /\ pass.teardown = "ok"
    /\ Len(Split(AnnGet(service.annotations, TargetGroupsKey))) > Len(ExpectedTgDeletes(service))
    /\ Len(calls) = 2

\* C5: a failed load-balancer delete call is the only call of its teardown,
\* and the teardown returns the error.
C5_LbDeleteFailureAborts ==
    \A i \in 1..Len(calls) :
        (calls[i].op = "DeleteLoadBalancerInstances" /\ ~calls[i].ok)
            => /\ Len(calls) = 1
               /\ pass.teardown = "err"
               /\ result.err = "DeleteLoadBalancerFailed"

\* a failed load-balancer delete call for a Service that lists target groups
C5_Witness ==
    /\ Len(calls) > 0
    /\ calls[1].op = "DeleteLoadBalancerInstances" /\ ~calls[1].ok
    /\ Len(ExpectedTgDeletes(service)) = 2

\* C6: a teardown in which some target-group delete call failed has issued
\* the delete call of every non-empty entry of the list, the later ones
\* included, and returned success.
C6_TgDeleteFailureContinues ==
    (TeardownRan /\ \E k \in 1..Len(calls) : calls[k].op = "DeleteTargetGroups" /\ ~calls[k].ok)
        => /\ pass.teardown = "ok"
           /\ SelectSeq(Issued, LAMBDA c : c.op = "DeleteTargetGroups") = ExpectedTgDeletes(service)

\* after a successful load-balancer delete the first target-group delete
\* call failed and the second was still issued
C6_Witness ==
    /\ TeardownRan /\ Len(calls) = 3
    /\ calls[1].op = "DeleteLoadBalancerInstances" /\ calls[1].ok
    /\ calls[2].op = "DeleteTargetGroups" /\ ~calls[2].ok
    /\ calls[3].op = "DeleteTargetGroups"
    /\ pass.teardown = "ok"

-----------------------------------------------------------------------------
(* Properties of the reconciliation state machine                          *)

CarriesAnnotation(obj) ==
    AnnHas(obj.annotations, LbIdKey) \/ AnnHas(obj.annotations, TargetGroupsKey)

\* the current pass read no Service, or one that is not of type LoadBalancer
\* and carries neither annotation
PassOverIgnored ==
    \/ pass.fetched = "notfound"
    \/ /\ pass.fetched = "found"
       /\ pass.startSvc.type # ServiceTypeLoadBalancer
       /\ ~CarriesAnnotation(pass.startSvc)

\* C7: a pass over a Service that does not exist, or over a Service that is
\* not of type LoadBalancer and carries neither annotation, is over at once
\* with success and no requeue, has written nothing to the Service and has
\* issued no cloud call.
C7_IgnoredServiceUntouched ==
    PassOverIgnored
        => /\ pc = "idle"
           /\ result = Result(0, Nil)
           /\ pass.exit \in {"not-found", "not-loadbalancer"}
           /\ pass.writes = {}
           /\ pass.issued = {} /\ calls = << >>

\* a pass that read a ClusterIP Service without annotations
C7_Witness ==
    /\ pass.fetched = "found"
    /\ pass.startSvc.type = "ClusterIP"
    /\ ~CarriesAnnotation(pass.startSvc)
    /\ pass.exit = "not-loadbalancer"

\* C8: a Service that is not of type LoadBalancer but carries the lb-id or
\* the target-groups annotation passes the event filter, and a pass that
\* read such a Service does not return at the type check.
C8_AnnotatedServiceStaysActionable ==
    /\ (stored # NoService /\ stored.type # ServiceTypeLoadBalancer /\ CarriesAnnotation(stored))
         => isLoadBalancerService(stored)
    /\ (pass.fetched = "found" /\ pass.startSvc.type # ServiceTypeLoadBalancer
            /\ CarriesAnnotation(pass.startSvc))
         => pass.exit # "not-loadbalancer"

\* the current pass read a LoadBalancer Service that was not being deleted
\* and lacked the finalizer
PassOverUnmarked ==
    /\ pass.fetched = "found"
    /\ pass.startSvc.type = ServiceTypeLoadBalancer
    /\ ~pass.startSvc.deletionTimestamp
    /\ ~HasFinalizer(pass.startSvc)

\* C9 as stated: a pass over a LoadBalancer Service that is not being
\* deleted and lacks the finalizer adds the finalizer, persists it and
\* returns success, without invoking the provisioner or issuing a cloud call.
C9_FinalizerFirstAsStated ==
    (PassOverUnmarked /\ pc = "idle")
        => /\ pass.exit = "finalizer-added"
           /\ "addFinalizer" \in pass.writes
           /\ result = Result(0, Nil)
           /\ ~pass.provisioner /\ pass.issued = {} /\ calls = << >>

\* C9, amended: a pass over a LoadBalancer Service that is not being deleted
\* and lacks the finalizer never invokes the provisioner and issues no cloud
\* call; it adds the finalizer and then either the update is accepted, the
\* stored Service carries the finalizer and the pass returns success, or the
\* update is rejected, nothing is written and the pass returns that error.
C9_FinalizerFirst ==
    PassOverUnmarked
        => /\ ~pass.provisioner /\ pass.issued = {} /\ calls = << >>
           /\ pc \in {"addFinalizer", "idle"}
           /\ (pc = "idle")
                => \/ /\ pass.exit = "finalizer-added"
                      /\ pass.writes = {"addFinalizer"}
                      /\ HasFinalizer(stored)
                      /\ result = Result(0, Nil)
                   \/ /\ pass.exit = "finalizer-add-failed"
                      /\ pass.writes = {}
                      /\ result = Result(0, "UpdateError")

\* the finalizer was added to a fresh LoadBalancer Service and persisted
C9_Witness ==
    /\ PassOverUnmarked
    /\ pass.exit = "finalizer-added"
    /\ HasFinalizer(stored)

\* the load balancer is not ready for getLoadBalancerExternalAddress
NotReady(resp) == resp.found /\ resp.hasStatus /\ resp.code \notin {"RUN", "USED"}

\* C10: a pass that invoked the provisioner for a Service carrying the lb-id
\* annotation has issued exactly one cloud call, a load-balancer detail
\* fetch, hence no create, add-target or delete call; if the fetch failed or
\* the load balancer was not ready the pass returned an error with
\* RequeueAfter 30 seconds, and the status is never PENDING: it is ACTIVE,
\* or empty beside an error.
C10_UpdateBranchOnlyFetches ==
    (pass.provisioner /\ AnnHas(pass.startSvc.annotations, LbIdKey))
        => /\ pass.issued = {"GetLoadBalancerInstanceDetail"}
           /\ Len(calls) = 1 /\ calls[1].op = "GetLoadBalancerInstanceDetail"
           /\ pass.writes \subseteq {"status"}
           /\ local.status # "PENDING" /\ pass.exit # "pending"
           /\ local.status = IF pass.exit = "provisioner-error" THEN "" ELSE "ACTIVE"
           /\ (local.detail.err \/ ~local.detail.found \/ NotReady(local.detail))
                => /\ pc = "idle"
                   /\ pass.exit = "provisioner-error"
                   /\ result.err # Nil /\ result.RequeueAfter = 30

\* the single fetch found the load balancer still being created
C10_Witness ==
    /\ pass.provisioner /\ AnnHas(pass.startSvc.annotations, LbIdKey)
    /\ local.detail.code = "INIT"
    /\ pass.exit = "provisioner-error"

-----------------------------------------------------------------------------
(* Properties of the provisioner                                           *)

\* the step obtains the target group of the port at index local.i
ObtainsTargetGroup == Len(local'.targetGroupIDs) = Len(local.targetGroupIDs) + 1

\* the step obtains the load balancer in the creation branch
ObtainsLoadBalancer == pc' = "waitForLoadBalancerReady" /\ pc # "waitForLoadBalancerReady"

\* C11: a creation pass that meets a target group or a load balancer of the
\* generated name, left by an earlier pass that did not persist lb-id, adopts
\* exactly the id of that resource and creates nothing: the cloud account
\* holds the same resources after the step, and one resource per name.
C11_ResumeAdoptsSameIds ==
    [][/\ ObtainsTargetGroup
            => LET earlier == {t \in cloudTGs : t.name = tgNameOf(service, local.i)}
               IN  earlier # {}
                     => /\ cloudTGs' = cloudTGs
                        /\ earlier = {t \in cloudTGs :
                                        t.id = local'.targetGroupIDs[Len(local'.targetGroupIDs)]}
       /\ ObtainsLoadBalancer
            => LET earlier == {l \in cloudLBs : l.name = lbNameOf(service)}
               IN  earlier # {}
                     => /\ cloudLBs' = cloudLBs
                        /\ earlier = {l \in cloudLBs : l.id = local'.lbID}]_vars

\* a second creation pass adopted the load balancer after a duplicate-name
\* error, having adopted the target group of its port before
C11_Witness ==
    /\ pc = "waitForLoadBalancerReady"
    /\ Len(calls) = 2
    /\ calls[1].op = "CreateLoadBalancerInstance" /\ ~calls[1].ok
    /\ calls[2].op = "GetLoadBalancerInstanceList"
    /\ local.lbID \in {l.id : l \in cloudLBs}
    /\ "CreateTargetGroup" \in pass.issued
    /\ Cardinality(cloudTGs) = 3

\* the latest pass went through the creation branch and returned no error
CreationPassSucceeded ==
    /\ pass.provisioner
    /\ ~AnnHas(pass.startSvc.annotations, LbIdKey)
    /\ pass.exit \in {"done", "pending"}
    /\ result.err = Nil

\* C12: after a creation-branch pass that returned without error for a
\* Service with n >= 1 ports, the stored Service carries lb-id equal to the
\* load-balancer id the pass obtained and a target-groups annotation that is
\* the comma-joined list of the n target-group ids the pass obtained, in
\* port order.
C12_AnnotationsPersisted ==
    (CreationPassSucceeded /\ Len(pass.startSvc.ports) >= 1)
        => /\ stored # NoService
           /\ AnnGet(stored.annotations, LbIdKey) = local.lbID
           /\ Len(local.targetGroupIDs) = Len(pass.startSvc.ports)
           /\ AnnHas(stored.annotations, TargetGroupsKey)
           /\ AnnGet(stored.annotations, TargetGroupsKey) = Join(local.targetGroupIDs)

-----------------------------------------------------------------------------
(* Several Services in one cloud account                                   *)

\* namespace/name of the Services: default/a-b, a/b and default/web
Identities ==
    {[namespace |-> DefaultNamespace, name |-> <<"a", "-", "b">>],
     [namespace |-> <<"a">>, name |-> <<"b">>],
     [namespace |-> DefaultNamespace, name |-> WebName]}

\* a fresh one-port LoadBalancer Service of the given namespace/name
FreshService(id) ==
    [Svc(ServiceTypeLoadBalancer, << >>, NoAnn, OnePort) EXCEPT
        !.namespace = id.namespace, !.name = id.name]

RegistrationOk == CHOOSE o \in RegistrationScenarios : o.diag = "ok"
ListenersOk == CHOOSE o \in ListenerScenarios : o.listOk /\ o.failing = {}
ResolveOk == Repeat(RespRunDomain, MaxAddressAttempts)

\* Two distinct fresh Services exist and both are queued; the worker is idle
InitShared ==
    /\ \E a \in Identities : \E b \in Identities \ {a} :
          /\ stored = FreshService(a)
          /\ parked = {[obj |-> FreshService(b), queued |-> TRUE]}
    /\ created = TRUE
    /\ cloudLBs = {[id |-> IdStr(7), name |-> OldLbName]}
    /\ cloudTGs = {[id |-> IdStr(n), name |-> OldTgName(n)] : n \in {1, 2}}
    /\ cloudListeners = {}
    /\ queued = TRUE
    /\ pc = "idle"
    /\ service = NoService
    /\ local = NoLocal
    /\ stale = FALSE
    /\ calls = << >>
    /\ pass = EmptyPass
    /\ result = Result(0, Nil)

\* Between two passes the worker turns to another Service: the work queue
\* runs one Reconcile at a time per Service, and here one at a time in all
SwitchService ==
    /\ pc = "idle"
    /\ \E p \in parked :
          /\ stored' = p.obj
          /\ queued' = p.queued
          /\ parked' = (parked \ {p}) \cup {[obj |-> stored, queued |-> queued]}
    /\ UNCHANGED <<created, cloudLBs, cloudTGs, cloudListeners, pc, service, local, stale,
                   calls, pass, result>>

\* The controller over two Services with a cloud in which every call but
\* a create of a taken name succeeds
NextShared ==
    \/ SwitchService
    \/ UserDelete
    \/ ReconcileGet(TRUE)
    \/ \E lbOk \in BOOLEAN : Teardown(lbOk, {})
    \/ RemoveFinalizer(TRUE)
    \/ AddFinalizer(TRUE)
    \/ \E create \in {"created", "error"} :
          CreateTargetGroup(create, TRUE, TRUE, TRUE, RegistrationOk)
    \/ \E create \in {"created", "duplicate"} : CreateLoadBalancer(create, TRUE)
    \/ AddTargetsWithRetry
    \/ WaitForLoadBalancerReady(ListenersOk.polls[local.retry + 1])
    \/ CreateListeners(ListenersOk.listOk, ListenersOk.failing)
    \/ GetExternalAddress(ResolveOk[local.retry + 1])
    \/ PersistLbId(TRUE, TRUE)
    \/ UpdateLoadBalancer(RespRunDomain)
    \/ ProjectStatus(TRUE, TRUE)

SpecShared == InitShared /\ [][NextShared]_vars

\* the Services in the store
StoredServices == ({stored} \cup {p.obj : p \in parked}) \ {NoService}

\* C13: no two distinct Services hold the same load-balancer id in their
\* lb-id annotations.
C13_NoSharedLoadBalancer ==
    \A a \in StoredServices : \A b \in StoredServices \ {a} :
        (AnnGet(a.annotations, LbIdKey) # << >> /\ AnnGet(b.annotations, LbIdKey) # << >>)
            => AnnGet(a.annotations, LbIdKey) # AnnGet(b.annotations, LbIdKey)

-----------------------------------------------------------------------------
(* Reconcile over an arbitrary provisioner outcome                         *)

\* the addresses a provisioner outcome may carry: none, a dotted quad, a
\* domain, three groups only, a group of four digits, a letter in a group
AddressInputs ==
    {<< >>, AddressA, DomainA,
     <<"1", ".", "2", ".", "3">>,
     <<"1", "2", "3", "4", ".", "1", ".", "1", ".", "1">>,
     <<"1", ".", "2", ".", "3", ".", "a">>,
     <<"9", "9", "9", ".", "0", ".", "0", ".", "1">>}

\* the ingress lists the stored Service may carry
IngressInputs ==
    {<< >>,
     <<[ip |-> AddressA, hostname |-> << >>]>>,
     <<[ip |-> << >>, hostname |-> DomainA]>>,
     <<[ip |-> << >>, hostname |-> AddressA]>>,
     <<[ip |-> AddressA, hostname |-> << >>], [ip |-> << >>, hostname |-> DomainA]>>}

\* what reconcileNaverCloudLB may hand back to Reconcile (line 131): an
\* error, or an LBStatus with any of the four provisioning statuses
ProvisionerOutcomes ==
    {[err |-> "ProvisionerFailed", status |-> "", extIP |-> << >>]}
    \cup {[err |-> Nil, status |-> st, extIP |-> a] :
             st \in {"PENDING", "CREATING", "ERROR", "ACTIVE"}, a \in AddressInputs}

\* Reconcile, lines 131-138, with the provisioner's return value o given.
\* The pass's copy carries lb-id, so the provisioner is in its update branch
\* (lines 597-622): one detail fetch, nothing written, and the lb-id of the
\* annotation in the returned status.  callOk: the fetch succeeds; a failed
\* fetch makes the branch return an error, and so does a successful one
\* that shows no instance or one that is not up (lines 639-660).  Besides
\* what that branch returns, o ranges over the other statuses of
\* LoadBalancerStatus, which lines 141-157 handle.
ProvisionerReturns(o, callOk) ==
    /\ pc = "reconcileNaverCloudLB" /\ AnnHas(service.annotations, LbIdKey)
    /\ (o.err = Nil) => callOk
    /\ LET lbID == AnnGet(service.annotations, LbIdKey)
           cs == <<Call("GetLoadBalancerInstanceDetail", lbID, callOk)>>
       IN  /\ calls' = cs
           /\ IF o.err # Nil
              THEN /\ pc' = "idle"
                   /\ result' = ProvisionerError(o.err)
                   /\ queued' = TRUE
                   /\ pass' = [pass EXCEPT !.provisioner = TRUE, !.exit = "provisioner-error",
                                           !.issued = @ \cup Ops(cs)]
                   /\ UNCHANGED local
              ELSE /\ pc' = "projectStatus"
                   /\ local' = [local EXCEPT !.lbID = lbID, !.status = o.status,
                                             !.extIP = o.extIP]
                   /\ pass' = [pass EXCEPT !.provisioner = TRUE, !.issued = @ \cup Ops(cs)]
                   /\ UNCHANGED <<result, queued>>
    /\ UNCHANGED <<stored, created, parked, cloudLBs, cloudTGs, cloudListeners, service, stale>>

\* another client writes the status of the stored Service
StatusEdited(g) ==
    /\ stored # NoService /\ stored.ingress # g
    /\ stored' = [stored EXCEPT !.ingress = g]
    /\ queued' = (queued \/ isLoadBalancerService(stored))
    /\ stale' = (pc # "idle")
    /\ UNCHANGED <<created, parked, cloudLBs, cloudTGs, cloudListeners, pc, service, local,
                   calls, pass, result>>

\* A LoadBalancer Service that carries the finalizer and the lb-id of the
\* cloud's load balancer 7 is queued
InitOutcome ==
    /\ stored = Svc(ServiceTypeLoadBalancer, <<naverLBFinalizer>>, OneAnn(LbIdKey, IdStr(7)),
                    OnePort)
    /\ created = TRUE
    /\ parked = {}
    /\ cloudLBs = {[id |-> IdStr(7), name |-> OldLbName]}
    /\ cloudTGs = {[id |-> IdStr(n), name |-> OldTgName(n)] : n \in {1, 2}}
    /\ cloudListeners = {}
    /\ queued = TRUE
    /\ pc = "idle"
    /\ service = NoService
    /\ local = NoLocal
    /\ stale = FALSE
    /\ calls = << >>
    /\ pass = EmptyPass
    /\ result = Result(0, Nil)

NextOutcome ==
    \/ ReconcileGet(TRUE)
    \/ \E o \in ProvisionerOutcomes, callOk \in BOOLEAN : ProvisionerReturns(o, callOk)
    \/ \E getOk \in BOOLEAN, updOk \in BOOLEAN : ProjectStatus(getOk, updOk)
    \/ \E g \in IngressInputs : StatusEdited(g)

SpecOutcome == InitOutcome /\ [][NextOutcome]_vars

\* the step in which Reconcile returns after the provisioner returned
ReturnsAfterProvisioner ==
    pc' = "idle" /\ pc # "idle" /\ pass'.provisioner

\* C14: Reconcile's result follows the provisioner outcome: a provisioner
\* error gives a 30 s requeue with an error; status PENDING or CREATING a 30 s
\* requeue without error; status ERROR a 60 s requeue with an error; status
\* ACTIVE whose status projection did not fail gives no requeue and no error.
C14_OutcomeMapping ==
    [][ReturnsAfterProvisioner =>
          /\ pass'.exit = "provisioner-error"
                => result'.RequeueAfter = 30 /\ result'.err # Nil
          /\ (pass'.exit # "provisioner-error" /\ local.status \in {"PENDING", "CREATING"})
                => result' = Result(30, Nil)
          /\ (pass'.exit # "provisioner-error" /\ local.status = "ERROR")
                => result'.RequeueAfter = 60 /\ result'.err # Nil
          /\ (pass'.exit # "provisioner-error" /\ local.status = "ACTIVE"
                /\ pass'.exit \notin {"status-get-failed", "status-update-failed"})
                => result' = Result(0, Nil)]_vars

\* a pass returned on status ERROR with the 60 s requeue
C14_Witness ==
    /\ pc = "idle" /\ pass.provisioner
    /\ local.status = "ERROR"
    /\ result.RequeueAfter = 60 /\ result.err # Nil

\* C15: the ingress of the stored Service changes only in a pass whose
\* provisioner returned status ACTIVE without error; so an unset ingress stays
\* unset up to the first ACTIVE pass, also on the PENDING path with its
\* synthesized fallback hostname.
C15_IngressOnlyWhenActive ==
    [][(stored # NoService /\ stored' # NoService /\ stored'.ingress # stored.ingress)
          => /\ pc = "projectStatus"
             /\ pass.provisioner /\ pass.exit # "provisioner-error"
             /\ local.status = "ACTIVE"]_vars

\* a creation pass returned PENDING with the fallback hostname, and the
\* ingress of the stored Service is unset
C15_Witness ==
    /\ pc = "idle" /\ pass.exit = "pending"
    /\ local.status = "PENDING" /\ local.extIP = FallbackHostname(local.lbID)
    /\ stored # NoService /\ stored.ingress = << >>

\* a is four groups of one to three decimal digits separated by dots
IsDottedQuad(a) ==
    LET dots == {k \in 1..Len(a) : a[k] = "."}
        ends == dots \cup {Len(a) + 1}
        groupAfter(k) == (CHOOSE n \in ends : n > k /\ \A m \in ends : m > k => n <= m) - k - 1
    IN  /\ Cardinality(dots) = 3
        /\ \A k \in (1..Len(a)) \ dots :
              a[k] \in {"0", "1", "2", "3", "4", "5", "6", "7", "8", "9"}
        /\ \A k \in dots \cup {0} : groupAfter(k) \in 1..3

\* the step in which Reconcile writes the Service status
WritesStatus == pc = "projectStatus" /\ "status" \in pass'.writes

\* C16: a status write sets ingress to exactly one entry; the entry has only
\* ip set, to the resolved address, when the address is a dotted quad, and
\* only hostname set, to the address, otherwise.
C16_IngressShape ==
    [][WritesStatus =>
          /\ stored' # NoService
          /\ Len(stored'.ingress) = 1
          /\ IF IsDottedQuad(local.extIP)
             THEN stored'.ingress[1] = [ip |-> local.extIP, hostname |-> << >>]
             ELSE stored'.ingress[1] = [ip |-> << >>, hostname |-> local.extIP]]_vars

\* the address 1234.1.1.1, whose first group has four digits, was written
\* as a hostname
C16_Witness ==
    /\ pc = "idle" /\ "status" \in pass.writes
    /\ stored # NoService
    /\ stored.ingress =
          <<[ip |-> << >>, hostname |-> <<"1", "2", "3", "4", ".", "1", ".", "1", ".", "1">>]>>

\* the first entry of the ingress list cur carries the address a in the
\* field the address belongs to
FirstEntryHolds(cur, a) ==
    /\ Len(cur) > 0
    /\ IF IsDottedQuad(a) THEN cur[1].ip = a ELSE cur[1].hostname = a

\* C17: a status write is issued only in an ACTIVE pass and only when the
\* resolved address differs from the first ingress entry of the Service as
\* stored at that moment; a pass that resolves the address already stored
\* leaves the stored Service as it is.
C17_ProjectionIdempotent ==
    [][/\ WritesStatus
          => local.status = "ACTIVE" /\ ~FirstEntryHolds(stored.ingress, local.extIP)
       /\ (pc = "projectStatus" /\ pc' = "idle" /\ stored # NoService
             /\ FirstEntryHolds(stored.ingress, local.extIP))
          => "status" \notin pass'.writes /\ stored' = stored]_vars

\* a second pass started with the address already in the status, resolved
\* the same address and returned success without a status write
C17_Witness ==
    /\ pc = "idle" /\ pass.exit = "done" /\ result = Result(0, Nil)
    /\ local.status = "ACTIVE" /\ local.extIP = DomainA
    /\ pass.startSvc # NoService /\ stored # NoService
    /\ pass.startSvc.ingress = <<[ip |-> << >>, hostname |-> DomainA]>>
    /\ stored.ingress = pass.startSvc.ingress
    /\ "status" \notin pass.writes

-----------------------------------------------------------------------------
(* The registration engine on its own                                      *)

\* the target lists handed to addTargetsWithRetry
TargetInputs == {<< >>, <<InstA>>, <<InstA, InstB>>}

\* the GetTargetList responses of one round
VerifyInputs ==
    {ListFailed, Registered({}), Registered({InstA}), Registered({InstA, InstB})}

\* what the three rounds and the final status check may meet
AddOracles ==
    {[add |-> <<a1, a2, a3>>, verify |-> <<v1, v2, v3>>, diag |-> d] :
        a1 \in BOOLEAN, a2 \in BOOLEAN, a3 \in BOOLEAN,
        v1 \in VerifyInputs, v2 \in VerifyInputs, v3 \in VerifyInputs,
        d \in {"ok", "detailErr"}}

\* addTargetsWithRetry is about to be called with targets and a cloud that
\* answers as o says
InitRegistration ==
    /\ \E targets \in TargetInputs, o \in AddOracles :
          local = [NoLocal EXCEPT !.targets = targets, !.remaining = targets, !.o = o,
                                  !.ret = "returned"]
    /\ pc = "addTargetsWithRetry"
    /\ stored = NoService
    /\ created = FALSE
    /\ parked = {}
    /\ cloudLBs = {}
    /\ cloudTGs = {[id |-> IdStr(1), name |-> OldTgName(1)]}
    /\ cloudListeners = {}
    /\ queued = FALSE
    /\ service = NoService
    /\ stale = FALSE
    /\ calls = << >>
    /\ pass = EmptyPass
    /\ result = Result(0, Nil)

\* the call of addTargetsWithRetry, round by round from entry to return
NextRegistration == AddTargetsWithRetry

SpecRegistration == InitRegistration /\ [][NextRegistration]_vars

\* the positions of the AddTarget calls in the call log
AddCalls == {k \in 1..Len(calls) : calls[k].op = "AddTarget"}

\* the round of the AddTarget call at position k: its rank among them
RoundOf(k) == Cardinality({j \in AddCalls : j <= k})

\* the round of the call at position k added its targets and the listing of
\* that round showed every one of them registered
RoundConfirmedAll(k) ==
    LET v == local.o.verify[RoundOf(k)]
    IN  /\ calls[k].ok
        /\ v.kind = "ok"
        /\ \A i \in 1..Len(calls[k].arg) : calls[k].arg[i] \in v.registered

\* C18: addTargetsWithRetry issues at most three AddTarget calls, none with
\* an empty target list and none after a round that confirmed every target;
\* when the first two AddTarget calls fail and the third succeeds with every
\* target confirmed, it returns nil after exactly three AddTarget calls.
C18_RetryRounds ==
    pc = "returned" =>
        /\ Cardinality(AddCalls) <= 3
        /\ \A k \in AddCalls : calls[k].arg # << >>
        /\ \A k \in AddCalls : RoundConfirmedAll(k) => \A j \in AddCalls : j <= k
        /\ (/\ local.targets # << >>
            /\ local.o.add = <<FALSE, FALSE, TRUE>>
            /\ local.o.verify[3].kind = "ok"
            /\ \A i \in 1..Len(local.targets) : local.targets[i] \in local.o.verify[3].registered)
           => /\ local.out.err = Nil
              /\ Cardinality(AddCalls) = 3

\* two targets, the first two AddTarget calls failed, the third succeeded
\* and both targets were confirmed: nil after three AddTarget calls
C18_Witness ==
    /\ pc = "returned"
    /\ local.targets = <<InstA, InstB>>
    /\ local.o.add = <<FALSE, FALSE, TRUE>>
    /\ local.o.verify[3] = Registered({InstA, InstB})
    /\ Cardinality(AddCalls) = 3
    /\ local.out.err = Nil

\* the targets left unconfirmed by the last round, read from the call log
Unconfirmed ==
    IF AddCalls = {} THEN << >>
    ELSE LET k == CHOOSE j \in AddCalls : \A i \in AddCalls : i <= j
             v == local.o.verify[RoundOf(k)]
         IN  IF ~calls[k].ok \/ v.kind # "ok" THEN calls[k].arg
             ELSE SelectSeq(calls[k].arg, LAMBDA t : t \notin v.registered)

\* C19: the return value follows the targets left unconfirmed after the
\* last round: none gives nil, fewer than the original targets gives nil,
\* as many as the original targets gives an error.
C19_OutcomeByUnconfirmed ==
    pc = "returned" =>
        /\ Unconfirmed = << >> => local.out.err = Nil
        /\ (Len(Unconfirmed) > 0 /\ Len(Unconfirmed) < Len(local.targets))
              => local.out.err = Nil
        /\ (Len(Unconfirmed) > 0 /\ Len(Unconfirmed) = Len(local.targets))
              => local.out.err # Nil

\* one of two targets stayed unconfirmed and the call returned nil
C19_Witness ==
    /\ pc = "returned"
    /\ local.targets = <<InstA, InstB>>
    /\ Unconfirmed = <<InstB>>
    /\ local.out.err = Nil

\* the AddTarget call that follows the one at position k
NextAddCall(k) == CHOOSE j \in AddCalls : j > k /\ \A i \in AddCalls : i > k => j <= i

\* the targets of the call at position k that its round left unconfirmed:
\* all of them when the call or the listing failed, else those the listing
\* does not show
LeftUnconfirmed(k) ==
    LET v == local.o.verify[RoundOf(k)]
    IN  IF ~calls[k].ok \/ v.kind # "ok" THEN calls[k].arg
        ELSE SelectSeq(calls[k].arg, LAMBDA t : t \notin v.registered)

\* the targets the round of the call at position k confirmed as registered
ConfirmedBy(k) ==
    LET v == local.o.verify[RoundOf(k)]
    IN  IF ~calls[k].ok \/ v.kind # "ok" THEN {}
        ELSE {calls[k].arg[i] : i \in 1..Len(calls[k].arg)} \cap v.registered

\* C28: every AddTarget call after the first carries exactly the targets the
\* previous round left unconfirmed: a subset of the previous call's targets,
\* the same targets when the previous call or its listing failed, and no
\* target an earlier round confirmed as registered.
C28_CarriesUnconfirmed ==
    pc = "returned" =>
        \A k \in AddCalls : (\E j \in AddCalls : j > k) =>
            LET n == NextAddCall(k)
                v == local.o.verify[RoundOf(k)]
            IN  /\ calls[n].arg = LeftUnconfirmed(k)
                /\ \A i \in 1..Len(calls[n].arg) :
                      \E h \in 1..Len(calls[k].arg) : calls[n].arg[i] = calls[k].arg[h]
                /\ (~calls[k].ok \/ v.kind # "ok") => calls[n].arg = calls[k].arg
                /\ \A e \in AddCalls : e <= k =>
                      \A i \in 1..Len(calls[n].arg) : calls[n].arg[i] \notin ConfirmedBy(e)

\* the first round confirmed one of two targets and the second AddTarget
\* call carried the other one only
C28_Witness ==
    /\ pc = "returned"
    /\ local.targets = <<InstA, InstB>>
    /\ local.o.add[1] /\ local.o.verify[1] = Registered({InstA})
    /\ Cardinality(AddCalls) >= 2
    /\ calls[NextAddCall(1)].arg = <<InstB>>

\* the final status check was made: its target-group detail query is in the
\* call log
DiagnosticRan == \E k \in 1..Len(calls) : calls[k].op = "GetTargetGroupDetail"

\* C29: after the retry loop the final status check is made whatever the
\* loop's outcome - every target confirmed, some confirmed or none - and
\* the returned error is the one a successful status check would give.
C29_DiagnosticAlwaysRuns ==
    (pc = "returned" /\ local.targets # << >>) =>
        /\ DiagnosticRan
        /\ local.out.err = addTargetsResult(local.targets, local.out.remaining,
                                            [local.o EXCEPT !.diag = "ok"]).err

\* every AddTarget call succeeds and every verification listing fails
AddsSucceedListingsFail ==
    /\ local.targets # << >>
    /\ \A k \in 1..MaxAddRetries : local.o.add[k] /\ local.o.verify[k].kind # "ok"

\* C39: when every AddTarget call succeeds and the verification listing
\* fails in every round, addTargetsWithRetry makes three AddTarget calls,
\* each with all the targets, and returns an error.
C39_VerificationFailureIsFatal ==
    (pc = "returned" /\ AddsSucceedListingsFail) =>
        /\ Cardinality(AddCalls) = 3
        /\ \A k \in AddCalls : calls[k].ok /\ calls[k].arg = local.targets
        /\ local.out.err # Nil
        /\ local.out.remaining = local.targets

\* two targets, three accepted AddTarget calls, three failed listings: an
\* error is returned
C39_Witness ==
    /\ pc = "returned" /\ AddsSucceedListingsFail
    /\ local.targets = <<InstA, InstB>>
    /\ Cardinality(AddCalls) = 3
    /\ \A k \in AddCalls : calls[k].ok
    /\ local.out.err # Nil

-----------------------------------------------------------------------------
(* The naming engine on its own                                            *)

\* the string of n characters c
Rep(c, n) == [i \in 1..n |-> c]

\* prefixes: none, the two the provisioner uses, a lone hyphen, upper case
PrefixInputs == {<< >>, TgNamePrefix, LbNamePrefix, <<"-">>, <<"T", "G">>}

\* namespaces: none, default, short, with characters that are removed, and
\* long ones that put the cut at 30 before, on and after a hyphen
NamespaceInputs ==
    {<< >>, DefaultNamespace, <<"a">>, <<"P", "r", "_", "1">>, <<"-", "_", "-">>}
    \cup {Rep("n", k) : k \in (MaxNameLen - 5)..(MaxNameLen - 2)}

\* Service names: none, plain, digit first, hyphens only, hyphens around a
\* removed character, removed characters only, upper case, long
NameInputs ==
    {<< >>, WebName, <<"9">>, <<"-", "-">>, <<"a", "-", ".", "-", "b">>, <<"_", ".">>,
     <<"A", "b">>, <<"x", "-">>, Rep("s", MaxNameLen + 1)}

\* suffixes: none, a port index, two digits, a hyphen
SuffixInputs == {<< >>, Itoa(0), Itoa(10), <<"-">>}

InitNaming ==
    /\ \E prefix \in PrefixInputs, namespace \in NamespaceInputs,
          serviceName \in NameInputs, suffix \in SuffixInputs :
          local = [prefix |-> prefix, namespace |-> namespace, serviceName |-> serviceName,
                   suffix |-> suffix, out |-> << >>, again |-> << >>]
    /\ pc = "generateValidName"
    /\ stored = NoService
    /\ created = FALSE
    /\ parked = {}
    /\ cloudLBs = {}
    /\ cloudTGs = {}
    /\ cloudListeners = {}
    /\ queued = FALSE
    /\ service = NoService
    /\ stale = FALSE
    /\ calls = << >>
    /\ pass = EmptyPass
    /\ result = Result(0, Nil)

\* the first call of generateValidName on the inputs
CallGenerateValidName ==
    /\ pc = "generateValidName"
    /\ local' = [local EXCEPT !.out = generateValidName(local.prefix, local.namespace,
                                                        local.serviceName, local.suffix)]
    /\ pc' = "named"
    /\ UNCHANGED <<stored, created, parked, cloudLBs, cloudTGs, cloudListeners, queued, service,
                   stale, calls, pass, result>>

\* a later call of generateValidName on the same inputs
CallGenerateValidNameAgain ==
    /\ pc = "named"
    /\ local' = [local EXCEPT !.again = generateValidName(local.prefix, local.namespace,
                                                          local.serviceName, local.suffix)]
    /\ pc' = "renamed"
    /\ UNCHANGED <<stored, created, parked, cloudLBs, cloudTGs, cloudListeners, queued, service,
                   stale, calls, pass, result>>

NextNaming == CallGenerateValidName \/ CallGenerateValidNameAgain

SpecNaming == InitNaming /\ [][NextNaming]_vars

\* C20: the name generateValidName returns has 3 to 30 characters, starts
\* with a lowercase letter, ends with a lowercase letter or a digit, holds
\* only lowercase letters, digits and hyphens and no two hyphens in a row;
\* a later call on the same inputs returns the same name.
C20_ValidName ==
    /\ pc \in {"named", "renamed"} =>
          LET name == local.out
          IN  /\ Len(name) >= 3 /\ Len(name) <= 30
              /\ IsLower(name[1])
              /\ IsLower(name[Len(name)]) \/ IsDigit(name[Len(name)])
              /\ \A i \in 1..Len(name) : IsLower(name[i]) \/ IsDigit(name[i]) \/ name[i] = "-"
              /\ \A i \in 1..(Len(name) - 1) : ~(name[i] = "-" /\ name[i + 1] = "-")
    /\ pc = "renamed" => local.again = local.out

\* prefix tg and a namespace of 26 characters put a hyphen at position 30:
\* the name was cut there and the hyphen dropped
C20_Witness ==
    /\ pc = "renamed"
    /\ local.prefix = TgNamePrefix
    /\ Len(local.namespace) = MaxNameLen - 4
    /\ local.serviceName = WebName
    /\ Len(local.out) = MaxNameLen - 1

-----------------------------------------------------------------------------
(* A Service with several ports                                            *)

\* a Service name of 27 characters: with the prefix tg- it fills the 30
\* characters of a resource name
LongName == Rep("s", MaxNameLen - Len(TgPrefix))

\* A two-port LoadBalancer Service that carries the finalizer is queued; its
\* name is short or long
InitPorts ==
    /\ \E name \in {WebName, LongName} :
          stored = [Svc(ServiceTypeLoadBalancer, <<naverLBFinalizer>>, NoAnn, TwoPorts)
                       EXCEPT !.name = name]
    /\ created = TRUE
    /\ parked = {}
    /\ cloudLBs = {[id |-> IdStr(7), name |-> OldLbName]}
    /\ cloudTGs = {[id |-> IdStr(n), name |-> OldTgName(n)] : n \in {1, 2}}
    /\ cloudListeners = {}
    /\ queued = TRUE
    /\ pc = "idle"
    /\ service = NoService
    /\ local = NoLocal
    /\ stale = FALSE
    /\ calls = << >>
    /\ pass = EmptyPass
    /\ result = Result(0, Nil)

\* The controller over that Service with a cloud in which every call but a
\* create of a taken name succeeds
NextPorts ==
    \/ UserDelete
    \/ ReconcileGet(TRUE)
    \/ \E lbOk \in BOOLEAN : Teardown(lbOk, {})
    \/ RemoveFinalizer(TRUE)
    \/ \E create \in {"created", "error"}, updOk \in BOOLEAN :
          CreateTargetGroup(create, TRUE, TRUE, updOk, RegistrationOk)
    \/ \E create \in {"created", "duplicate"} : CreateLoadBalancer(create, TRUE)
    \/ AddTargetsWithRetry
    \/ WaitForLoadBalancerReady(ListenersOk.polls[local.retry + 1])
    \/ CreateListeners(ListenersOk.listOk, ListenersOk.failing)
    \/ \E resps \in ResolveScenarios : GetExternalAddress(resps[local.retry + 1])
    \/ PersistLbId(TRUE, TRUE)
    \/ UpdateLoadBalancer(RespRunDomain)
    \/ ProjectStatus(TRUE, TRUE)

SpecPorts == InitPorts /\ [][NextPorts]_vars

\* C21: the target-group names of the ports of the Service under
\* reconciliation are pairwise distinct, and so are the target-group ids a
\* pass has obtained for them.
C21_DistinctTargetGroupNames ==
    service # NoService =>
        /\ \A i \in 0..(Len(service.ports) - 1) : \A j \in 0..(Len(service.ports) - 1) :
              i # j => tgNameOf(service, i) # tgNameOf(service, j)
        /\ \A i \in 1..Len(local.targetGroupIDs) : \A j \in 1..Len(local.targetGroupIDs) :
              i # j => local.targetGroupIDs[i] # local.targetGroupIDs[j]

-----------------------------------------------------------------------------
(* updateServiceAnnotations on its own                                     *)

OtherKey == "app"

\* the annotation maps of the stored Service: none, the lb-id with a value
\* and with the empty value, a foreign key alone and next to the controller's
StoredAnnotationInputs ==
    {NoAnn,
     OneAnn(LbIdKey, <<"7">>),
     OneAnn(LbIdKey, << >>),
     OneAnn(OtherKey, <<"x">>),
     [k \in {LbIdKey, OtherKey} |-> IF k = LbIdKey THEN <<"8">> ELSE <<"x">>],
     [k \in {LbIdKey, TargetGroupsKey, OtherKey} |->
         IF k = LbIdKey THEN <<"7">> ELSE IF k = TargetGroupsKey THEN <<"1", ",", "2">> ELSE <<"x">>]}

\* the maps handed to updateServiceAnnotations: empty, one key, one key with
\* the empty value, two keys
GivenAnnotationInputs ==
    {NoAnn,
     OneAnn(LbIdKey, <<"7">>),
     OneAnn(LbIdKey, << >>),
     TwoAnn(<<"7">>, <<"1", ",", "2">>)}

\* updateServiceAnnotations is about to be called with a map on a stored
\* Service with or without the finalizer and with or without an ingress
InitAnnotations ==
    /\ \E a \in StoredAnnotationInputs, f \in {<< >>, <<naverLBFinalizer>>},
          g \in {<< >>, <<[ip |-> AddressA, hostname |-> << >>]>>} :
          stored = [Svc(ServiceTypeLoadBalancer, f, a, OnePort) EXCEPT !.ingress = g]
    /\ \E given \in GivenAnnotationInputs :
          local = [annotations |-> given, before |-> NoService, err |-> Nil,
                   issued |-> FALSE, written |-> FALSE]
    /\ pc = "updateServiceAnnotations"
    /\ created = TRUE
    /\ parked = {}
    /\ cloudLBs = {}
    /\ cloudTGs = {}
    /\ cloudListeners = {}
    /\ queued = FALSE
    /\ service = NoService
    /\ stale = FALSE
    /\ calls = << >>
    /\ pass = EmptyPass
    /\ result = Result(0, Nil)

\* One call of updateServiceAnnotations, lines 954-989.  getOk, updOk: the
\* outcomes of r.Get and r.Update.  local.before keeps the object the call
\* fetched, local.issued whether it called r.Update.
CallUpdateServiceAnnotations(getOk, updOk) ==
    /\ pc \in {"updateServiceAnnotations", "once"}
    /\ LET u == updateServiceAnnotations(stored, local.annotations)
           issued == getOk /\ u.updated
           written == issued /\ updOk
       IN  /\ (~issued) => updOk
           /\ stored' = IF written THEN AfterUpdate(u.obj) ELSE stored
           /\ local' = [local EXCEPT !.before = stored,
                                     !.err = IF ~getOk THEN "GetError"
                                             ELSE IF issued /\ ~updOk THEN "UpdateError" ELSE Nil,
                                     !.issued = issued, !.written = written]
    /\ pc' = IF pc = "once" THEN "twice" ELSE "once"
    /\ UNCHANGED <<created, parked, cloudLBs, cloudTGs, cloudListeners, queued, service, stale,
                   calls, pass, result>>

NextAnnotations ==
    \E getOk \in BOOLEAN, updOk \in BOOLEAN : CallUpdateServiceAnnotations(getOk, updOk)

SpecAnnotations == InitAnnotations /\ [][NextAnnotations]_vars

\* the annotation map m overridden by the map g
Override(m, g) ==
    [k \in (DOMAIN m) \cup (DOMAIN g) |-> IF k \in DOMAIN g THEN g[k] ELSE m[k]]

\* a call of updateServiceAnnotations has returned without error
ReturnedNil == pc \in {"once", "twice"} /\ local.err = Nil

\* everything of the stored Service but its annotations is as the call found it
RestUnchanged ==
    /\ stored.finalizers = local.before.finalizers
    /\ stored.type = local.before.type
    /\ stored.ports = local.before.ports
    /\ stored.ingress = local.before.ingress
    /\ stored.deletionTimestamp = local.before.deletionTimestamp

\* C22 as stated: after a return without error the stored annotations are
\* the map that was stored before overridden by the given map, and
\* finalizers, spec and status are unchanged.
C22_AsStated ==
    ReturnedNil =>
        /\ DOMAIN stored.annotations
              = (DOMAIN local.before.annotations) \cup (DOMAIN local.annotations)
        /\ \A k \in DOMAIN stored.annotations :
              stored.annotations[k] = Override(local.before.annotations, local.annotations)[k]
        /\ RestUnchanged

\* C22: after a return without error every given key reads as the given
\* value (an absent key reading as the empty value), every other key is
\* present as before with its value, no further key appears, and finalizers,
\* spec and status are unchanged.
C22_OnlyGivenKeysChange ==
    ReturnedNil =>
        /\ \A k \in DOMAIN local.annotations :
              AnnGet(stored.annotations, k) = local.annotations[k]
        /\ \A k \in (DOMAIN local.before.annotations) \ (DOMAIN local.annotations) :
              /\ k \in DOMAIN stored.annotations
              /\ stored.annotations[k] = local.before.annotations[k]
        /\ DOMAIN stored.annotations
              \subseteq (DOMAIN local.before.annotations) \cup (DOMAIN local.annotations)
        /\ DOMAIN local.before.annotations \subseteq DOMAIN stored.annotations
        /\ RestUnchanged

\* a call changed lb-id from 8 to 7 and the foreign annotation is still there
C22_Witness ==
    /\ pc = "once" /\ local.err = Nil /\ local.written
    /\ AnnGet(local.before.annotations, LbIdKey) = <<"8">>
    /\ AnnGet(stored.annotations, LbIdKey) = <<"7">>
    /\ AnnGet(stored.annotations, OtherKey) = <<"x">>

\* some given key reads on the fetched object as another value than given
SomeGivenValueDiffers ==
    \E k \in DOMAIN local.annotations :
        AnnGet(local.before.annotations, k) # local.annotations[k]

\* C23: a call whose fetch succeeded issues a write exactly when some given
\* key's value differs from the value on the fetched object; without such a
\* key (empty map, identical values) it issues none and returns nil; a second
\* call with the same map after a call that returned nil issues no write.
C23_WriteIffDifferent ==
    [][(pc' \in {"once", "twice"} /\ pc' # pc)
          => /\ local'.err # "GetError"
                => /\ local'.issued <=> SomeGivenValueDiffers'
                   /\ ~SomeGivenValueDiffers' => local'.err = Nil /\ stored' = stored
             /\ (pc = "once" /\ local.err = Nil) => ~local'.issued]_vars

\* the first call wrote the given lb-id and returned nil; the second call
\* found it stored and issued no write
C23_Witness ==
    /\ pc = "twice" /\ local.err = Nil /\ ~local.issued
    /\ local.annotations = OneAnn(LbIdKey, <<"7">>)
    /\ local.before = stored
    /\ AnnGet(stored.annotations, LbIdKey) = <<"7">>
    /\ AnnGet(stored.annotations, OtherKey) = <<"x">>

-----------------------------------------------------------------------------
(* A fresh Service in a cloud without failures                             *)

\* the detail responses of a load balancer that is up
RunResponses == {RespRunDomain, RespRunIP, RespChanging}

\* the poll responses of the readiness wait: up at once, up after two
\* polls, not up within the wait
ReadyPolls ==
    {Repeat(RespRunIP, MaxReadyRetries),
     <<RespInit, RespInit>> \o Repeat(RespRunDomain, MaxReadyRetries - 2),
     Repeat(RespInit, MaxReadyRetries)}

\* the responses of the address retry loop: up at once, up at the third
\* fetch, up without domain and address, not up within the five fetches
HealthyResolves ==
    {Repeat(RespRunDomain, MaxAddressAttempts),
     <<RespInit, RespInit>> \o Repeat(RespRunIP, MaxAddressAttempts - 2),
     Repeat(RespRunBare, MaxAddressAttempts),
     Repeat(RespInit, MaxAddressAttempts)}

\* A fresh one-port LoadBalancer Service has been created and is queued
InitFair ==
    /\ \E id \in Identities : stored = FreshService(id)
    /\ created = TRUE
    /\ parked = {}
    /\ cloudLBs = {[id |-> IdStr(7), name |-> OldLbName]}
    /\ cloudTGs = {[id |-> IdStr(n), name |-> OldTgName(n)] : n \in {1, 2}}
    /\ cloudListeners = {}
    /\ queued = TRUE
    /\ pc = "idle"
    /\ service = NoService
    /\ local = NoLocal
    /\ stale = FALSE
    /\ calls = << >>
    /\ pass = EmptyPass
    /\ result = Result(0, Nil)

\* the update branch meets a load balancer that is up
UpdateMeetsRun == \E resp \in RunResponses : UpdateLoadBalancer(resp)

\* the cloud accepts a create-target-group call unless the name is taken
CreateTargetGroupFair ==
    /\ pc \in {"reconcileNaverCloudLB", "createTargetGroup"}
    /\ \E create \in {"created", "error"} :
          /\ (create = "error") <=> (\E t \in cloudTGs : t.name = tgNameOf(service, local.i))
          /\ CreateTargetGroup(create, TRUE, TRUE, TRUE, RegistrationOk)

\* the cloud accepts a create-load-balancer call unless the name is taken
CreateLoadBalancerFair ==
    \E create \in {"created", "duplicate"} : CreateLoadBalancer(create, TRUE)

\* The controller with an API server and a cloud in which every call
\* succeeds, but for a create of a name that is taken; the load balancer may
\* take any time to come up
NextFair ==
    \/ ReconcileGet(TRUE)
    \/ AddFinalizer(TRUE)
    \/ CreateTargetGroupFair
    \/ CreateLoadBalancerFair
    \/ AddTargetsWithRetry
    \/ \E polls \in ReadyPolls : WaitForLoadBalancerReady(polls[local.retry + 1])
    \/ CreateListeners(TRUE, {})
    \/ \E resps \in HealthyResolves : GetExternalAddress(resps[local.retry + 1])
    \/ PersistLbId(TRUE, TRUE)
    \/ UpdateLoadBalancer(RespInit)
    \/ UpdateMeetsRun
    \/ ProjectStatus(TRUE, TRUE)

\* the positions of a pass
Positions ==
    {"idle", "addFinalizer", "reconcileNaverCloudLB", "createTargetGroup",
     "addTargetsWithRetry", "createLoadBalancer", "waitForLoadBalancerReady",
     "createListeners", "getExternalAddress", "updateServiceAnnotations", "projectStatus"}

\* a started pass moves on to its next position
PassProceeds == pc # "idle" /\ \E p \in Positions : p # pc /\ pc' = p

\* A started pass goes on to its return (weak fairness of its steps); the
\* work queue runs every queued request (weak fairness of the fetch that
\* starts a pass); the load balancer eventually reports RUN to the passes
\* that keep asking (strong fairness of the update branch meeting a load
\* balancer that is up)
SpecFair ==
    /\ InitFair /\ [][NextFair]_vars
    /\ WF_pc(PassProceeds)
    /\ WF_vars(ReconcileGet(TRUE))
    /\ SF_vars(UpdateMeetsRun)

\* the create calls of the three kinds, as steps
IssuesCreateTargetGroup ==
    /\ pc \in {"reconcileNaverCloudLB", "createTargetGroup"} /\ pc' # pc
    /\ calls' # << >> /\ calls'[1].op = "CreateTargetGroup"
IssuesCreateLoadBalancer ==
    /\ pc' = "waitForLoadBalancerReady" /\ pc' # pc
    /\ calls' # << >> /\ calls'[1].op = "CreateLoadBalancerInstance"
IssuesCreateListener ==
    /\ pc = "createListeners" /\ pc' # pc
    /\ "CreateLoadBalancerListener" \in Ops(calls')

\* the number of create-listener calls in the log of the step
ListenerCreates == Cardinality({k \in 1..Len(calls) : calls[k].op = "CreateLoadBalancerListener"})

\* the Service is provisioned: one ingress entry, both annotations stored,
\* and in the cloud one target group and one load balancer of its names and
\* one listener on that load balancer
Provisioned ==
    /\ stored # NoService
    /\ Len(stored.ingress) = 1
    /\ AnnGet(stored.annotations, LbIdKey) # << >>
    /\ AnnGet(stored.annotations, TargetGroupsKey) # << >>
    /\ Cardinality({t \in cloudTGs : t.name = tgNameOf(stored, 0)}) = 1
    /\ Cardinality({l \in cloudLBs : l.name = lbNameOf(stored)}) = 1
    /\ Cardinality({l \in cloudListeners : l.lb = AnnGet(stored.annotations, LbIdKey)}) = 1

\* C24: the fresh Service is eventually provisioned; every create call is
\* issued by a pass that found the finalizer on the Service (so none by the
\* first pass, which adds it), and each kind of create call is issued only
\* while no resource of that kind exists for the Service, that is once.
C24_EventuallyProvisioned ==
    /\ <>Provisioned
    /\ [][/\ (IssuesCreateTargetGroup \/ IssuesCreateLoadBalancer \/ IssuesCreateListener)
                => /\ containsString(service.finalizers, naverLBFinalizer)
                   /\ containsString(pass.startSvc.finalizers, naverLBFinalizer)
          /\ IssuesCreateTargetGroup
                => /\ {t \in cloudTGs : t.name = tgNameOf(service, 0)} = {}
                   /\ Cardinality(cloudTGs') = Cardinality(cloudTGs) + 1
          /\ IssuesCreateLoadBalancer
                => /\ {l \in cloudLBs : l.name = lbNameOf(service)} = {}
                   /\ Cardinality(cloudLBs') = Cardinality(cloudLBs) + 1
          /\ IssuesCreateListener
                => /\ {l \in cloudListeners : l.lb = local.lbID} = {}
                   /\ ListenerCreates' = 1]_vars

\* the Service of a pass that came to the update branch is provisioned
C24_Witness ==
    /\ Provisioned
    /\ pc = "idle" /\ pass.exit = "done" /\ "status" \in pass.writes
    /\ AnnHas(pass.startSvc.annotations, LbIdKey)

-----------------------------------------------------------------------------
(* External address resolution on its own                                  *)

\* the IP lists of a detail response: none, one address, an empty first
\* entry before an address, one empty entry
IpListInputs == {<< >>, <<AddressA>>, <<<< >>, AddressA>>, <<<< >>>>}

\* the detail responses: the call fails; no instance; an instance without
\* status or with one of four status codes, with no, an empty or a set
\* domain and with any of the IP lists
DetailInputs ==
    {RespErr, RespMissing}
    \cup {Detail(FALSE, TRUE, code # "", code, "", hasDomain, domain, ipList) :
             code \in {"", "RUN", "USED", "INIT", "ERROR"},
             hasDomain \in BOOLEAN, domain \in {<< >>, DomainA}, ipList \in IpListInputs}

\* getLoadBalancerExternalAddress is about to be called for a load balancer
\* whose detail fetch is answered by resp
InitAddress ==
    /\ \E lbID \in {IdStr(4), IdStr(7)}, resp \in DetailInputs :
          /\ resp.hasDomain \/ resp.domain = << >>
          /\ local = [lbID |-> lbID, resp |-> resp, out |-> [addr |-> << >>, err |-> Nil]]
    /\ pc = "getLoadBalancerExternalAddress"
    /\ stored = NoService
    /\ created = FALSE
    /\ parked = {}
    /\ cloudLBs = {[id |-> IdStr(7), name |-> OldLbName]}
    /\ cloudTGs = {}
    /\ cloudListeners = {}
    /\ queued = FALSE
    /\ service = NoService
    /\ stale = FALSE
    /\ calls = << >>
    /\ pass = EmptyPass
    /\ result = Result(0, Nil)

\* the call of getLoadBalancerExternalAddress, from entry to return
CallGetLoadBalancerExternalAddress ==
    /\ pc = "getLoadBalancerExternalAddress"
    /\ local' = [local EXCEPT !.out = getLoadBalancerExternalAddress(local.lbID, local.resp)]
    /\ calls' = DetailCalls(local.lbID, <<local.resp>>, 1)
    /\ pc' = "resolved"
    /\ UNCHANGED <<stored, created, parked, cloudLBs, cloudTGs, cloudListeners, queued, service,
                   stale, pass, result>>

NextAddress == CallGetLoadBalancerExternalAddress

SpecAddress == InitAddress /\ [][NextAddress]_vars

\* the detail response names an instance whose status code is RUN or USED
StatusRunOrUsed ==
    /\ ~local.resp.err /\ local.resp.found
    /\ local.resp.hasStatus /\ local.resp.code \in {"RUN", "USED"}

\* C25: getLoadBalancerExternalAddress returns an address only for a load
\* balancer whose status code is RUN or USED; for an instance with any other
\* status or with no status it returns the not-ready error and no address.
C25_AddressOnlyWhenRunOrUsed ==
    pc = "resolved" =>
        /\ local.out.addr # << >> => StatusRunOrUsed
        /\ (~local.resp.err /\ local.resp.found /\ ~StatusRunOrUsed)
              => local.out.err = "NotReady" /\ local.out.addr = << >>

\* the first non-empty entry of the IP list, "" when there is none
FirstNonEmpty(ipList) ==
    IF \E k \in 1..Len(ipList) : ipList[k] # << >>
    THEN ipList[CHOOSE k \in 1..Len(ipList) :
                    ipList[k] # << >> /\ \A j \in 1..(k - 1) : ipList[j] = << >>]
    ELSE << >>

\* C26: once the status check has passed, getLoadBalancerExternalAddress
\* returns the domain if it is non-empty, otherwise the first non-empty entry
\* of the IP list, otherwise lb-<id>.ncloud.com; never an error, never an
\* empty address.
C26_AddressPriority ==
    (pc = "resolved" /\ ~local.resp.err /\ local.resp.found
        /\ (local.resp.hasStatus => local.resp.code \in {"RUN", "USED"}))
    => /\ local.out.err = Nil
       /\ local.out.addr # << >>
       /\ local.out.addr =
             IF local.resp.hasDomain /\ local.resp.domain # << >> THEN local.resp.domain
             ELSE IF FirstNonEmpty(local.resp.ipList) # << >>
                  THEN FirstNonEmpty(local.resp.ipList)
                  ELSE FallbackHostname(local.lbID)

-----------------------------------------------------------------------------
(* The end of the creation branch over any five detail responses           *)

\* the responses one fetch of the retry loop may get
AttemptInputs == {RespErr, RespInit, RespRunDomain, RespRunBare}

\* the Service of the pass: it carries the finalizer and the target group
\* of its port is recorded
ServiceInCreation ==
    Svc(ServiceTypeLoadBalancer, <<naverLBFinalizer>>, OneAnn(TargetGroupsKey, IdStr(3)), OnePort)

\* A creation pass has created target group 3, load balancer 4 and the
\* listener and is about to resolve the external address; local.resps are
\* the responses the five fetches will get
InitResolve ==
    /\ \E r1 \in AttemptInputs, r2 \in AttemptInputs, r3 \in AttemptInputs,
          r4 \in AttemptInputs, r5 \in AttemptInputs :
          local = With([NoLocal EXCEPT !.i = 1, !.targetGroupIDs = <<IdStr(3)>>,
                                       !.lbID = IdStr(4)],
                       "resps", <<r1, r2, r3, r4, r5>>)
    /\ stored = ServiceInCreation
    /\ service = ServiceInCreation
    /\ created = TRUE
    /\ parked = {}
    /\ cloudLBs = {[id |-> IdStr(4), name |-> lbNameOf(ServiceInCreation)]}
    /\ cloudTGs = {[id |-> IdStr(3), name |-> tgNameOf(ServiceInCreation, 0)]}
    /\ cloudListeners = {[lb |-> IdStr(4), port |-> OnePort[1].port, tg |-> IdStr(3)]}
    /\ queued = FALSE
    /\ pc = "getExternalAddress"
    /\ stale = FALSE
    /\ calls = << >>
    /\ pass = [EmptyPass EXCEPT !.fetched = "found", !.startSvc = ServiceInCreation,
                                !.provisioner = TRUE]
    /\ result = Result(0, Nil)

\* the rest of the pass: resolution and annotation write, then Reconcile's
\* handling of the returned status
NextResolve ==
    \/ GetExternalAddress(local.resps[local.retry + 1])
    \/ \E getOk \in BOOLEAN, updOk \in BOOLEAN : PersistLbId(getOk, updOk)
    \/ \E getOk \in BOOLEAN, updOk \in BOOLEAN : ProjectStatus(getOk, updOk)

SpecResolve == InitResolve /\ [][NextResolve]_vars

\* a detail response from which an address is resolved
Resolves(resp) ==
    /\ ~resp.err /\ resp.found
    /\ resp.hasStatus => resp.code \in {"RUN", "USED"}

\* the attempts of the loop that resolve an address
Successes == {k \in 1..5 : Resolves(local.resps[k])}
FirstSuccess == CHOOSE k \in Successes : \A j \in Successes : k <= j

\* the address loop makes at most five detail fetches, goes on only while
\* none has resolved an address, and ends at the first that does or at the
\* fifth
AttemptsAsResolved ==
    /\ Len(calls) <= 5
    /\ \A k \in 1..Len(calls) : calls[k].op = "GetLoadBalancerInstanceDetail"
    /\ pc = "getExternalAddress" =>
          /\ Len(calls) = local.retry
          /\ \A k \in 1..Len(calls) : k \notin Successes
    /\ pc # "getExternalAddress" =>
          Len(calls) = IF Successes = {} THEN 5 ELSE FirstSuccess

\* the provisioner has returned to Reconcile
ProvisionerReturned == pc \in {"projectStatus", "idle"}

\* the provisioner returned a status and no error, with lb-id stored: PENDING
\* with the hostname lb-<id>.ncloud.com when no fetch resolved an address
\* (Reconcile then returns a 30 s requeue and no error), ACTIVE with the
\* address of the first fetch that did
ReturnedStatus ==
    /\ pass.exit # "provisioner-error"
    /\ AnnGet(stored.annotations, LbIdKey) = local.lbID
    /\ Successes = {} =>
          /\ local.status = "PENDING"
          /\ local.extIP = FallbackHostname(local.lbID)
          /\ pc = "idle" => (pass.exit = "pending" /\ result = Result(30, Nil))
    /\ Successes # {} =>
          /\ local.status = "ACTIVE"
          /\ local.extIP # << >>
          /\ local.extIP =
                getLoadBalancerExternalAddress(local.lbID, local.resps[FirstSuccess]).addr

\* the lb-id write failed: lb-id is not stored, the provisioner returned no
\* status and Reconcile returned the error with a 30 s requeue
ReturnedWriteError ==
    /\ pc = "idle" /\ pass.exit = "provisioner-error"
    /\ ~AnnHas(stored.annotations, LbIdKey)
    /\ local.status = "" /\ local.extIP = << >>
    /\ result = Result(30, "UpdateAnnotationsFailed")

\* C27 as stated: the creation branch fetches the load-balancer detail at
\* most five times and stops at the first fetch that resolves an address.
\* When none of the five does, the pass still stores lb-id and returns
\* PENDING with the hostname lb-<id>.ncloud.com and no error.  When one
\* does, it returns ACTIVE with the address of that fetch.
C27_AsStated ==
    /\ AttemptsAsResolved
    /\ ProvisionerReturned => ReturnedStatus

\* C27, amended: the creation branch fetches the load-balancer detail at
\* most five times and stops at the first fetch that resolves an address.
\* Then the lb-id annotation is written.  When the write succeeds, lb-id is
\* stored and the pass returns PENDING with the hostname lb-<id>.ncloud.com
\* and no error if none of the five fetches resolved an address, ACTIVE with
\* the address of the first resolving fetch otherwise.  When the write
\* fails, after either outcome of the loop, lb-id is not stored and the pass
\* returns the write's error and no status.
C27_ResolveAttempts ==
    /\ AttemptsAsResolved
    /\ ProvisionerReturned => (ReturnedStatus \/ ReturnedWriteError)

\* all five fetches failed: the pass stored lb-id and returned PENDING with
\* the fallback hostname, a 30 s requeue and no error
C27_Witness ==
    /\ pc = "idle" /\ pass.exit = "pending"
    /\ Successes = {} /\ Len(calls) = 5
    /\ local.extIP = FallbackHostname(IdStr(4))
    /\ AnnGet(stored.annotations, LbIdKey) = IdStr(4)
    /\ result = Result(30, Nil)

-----------------------------------------------------------------------------
(* A failed create-target-group call                                       *)

\* a step of the port loop whose CreateTargetGroup call failed: the port
\* was handled or the pass returned, and the call log opens with the failed call
CreateTargetGroupFailedStep ==
    /\ pc \in {"reconcileNaverCloudLB", "createTargetGroup"}
    /\ local'.i = local.i + 1 \/ pc' = "idle"
    /\ calls' # << >>
    /\ calls'[1].op = "CreateTargetGroup" /\ ~calls'[1].ok

\* the target groups in the cloud that bear the name of the failed call
NamedAsRequested == {t \in cloudTGs' : t.name = calls'[1].arg}

\* C30: after a failed CreateTargetGroup call the target groups are listed;
\* when the listing succeeds and shows a group of exactly the generated
\* name, the id of such a group is taken for the port; when the listing
\* fails or shows no such group, the pass returns an error, no
\* CreateLoadBalancerInstance call was issued in it and no lb-id is stored.
C30_AdoptOrFail ==
    [][CreateTargetGroupFailedStep =>
          /\ Len(calls') >= 2 /\ calls'[2].op = "GetTargetGroupList"
          /\ (calls'[2].ok /\ NamedAsRequested # {}) =>
                /\ pc' # "idle"
                /\ Len(local'.targetGroupIDs) = Len(local.targetGroupIDs) + 1
                /\ \E t \in NamedAsRequested :
                      local'.targetGroupIDs = Append(local.targetGroupIDs, t.id)
          /\ (~calls'[2].ok \/ NamedAsRequested = {}) =>
                /\ pc' = "idle"
                /\ pass'.exit = "provisioner-error"
                /\ result'.err # Nil
                /\ Len(calls') = 2
                /\ "CreateLoadBalancerInstance" \notin pass'.issued
                /\ "lb-id" \notin pass'.writes
                /\ stored' = stored
                /\ stored' # NoService => ~AnnHas(stored'.annotations, LbIdKey)
                /\ cloudLBs' = cloudLBs]_vars

\* the create call failed and the listing showed no group of the name: the
\* pass returned the error without a load balancer call and without lb-id
C30_Witness ==
    /\ pc = "idle" /\ pass.exit = "provisioner-error"
    /\ Len(calls) = 2
    /\ calls[1].op = "CreateTargetGroup" /\ ~calls[1].ok
    /\ calls[2].op = "GetTargetGroupList" /\ calls[2].ok
    /\ \A t \in cloudTGs : t.name # calls[1].arg
    /\ result.err # Nil
    /\ "CreateLoadBalancerInstance" \notin pass.issued
    /\ stored # NoService /\ ~AnnHas(stored.annotations, LbIdKey)

-----------------------------------------------------------------------------
(* A failed create-load-balancer call                                      *)

\* a step of the creation branch whose CreateLoadBalancerInstance call failed
CreateLoadBalancerFailedStep ==
    /\ pc \in {"reconcileNaverCloudLB", "createLoadBalancer"}
    /\ pc' \in {"waitForLoadBalancerReady", "idle"}
    /\ calls' # << >>
    /\ calls'[1].op = "CreateLoadBalancerInstance" /\ ~calls'[1].ok

\* the error was the duplicate-name error: the load balancers were listed
ListedAfterDuplicate ==
    Len(calls') >= 2 /\ calls'[2].op = "GetLoadBalancerInstanceList"

\* the load balancers in the cloud that bear the name of the failed call
LbNamedAsRequested == {l \in cloudLBs' : l.name = calls'[1].arg}

\* C31: after a duplicate-name error of CreateLoadBalancerInstance the load
\* balancers are listed and, when the listing shows one of the generated
\* name, the pass goes on with its id; after any other error, or when the
\* listing fails or shows none of that name, the pass returns an error and
\* no lb-id is stored.
C31_AdoptDuplicateOrFail ==
    [][CreateLoadBalancerFailedStep =>
          /\ (ListedAfterDuplicate /\ calls'[2].ok /\ LbNamedAsRequested # {}) =>
                /\ pc' = "waitForLoadBalancerReady"
                /\ \E l \in LbNamedAsRequested : local'.lbID = l.id
                /\ result' = result
          /\ ~(ListedAfterDuplicate /\ calls'[2].ok /\ LbNamedAsRequested # {}) =>
                /\ pc' = "idle"
                /\ pass'.exit = "provisioner-error"
                /\ result'.err # Nil
                /\ "lb-id" \notin pass'.writes
                /\ stored' = stored
                /\ stored' # NoService => ~AnnHas(stored'.annotations, LbIdKey)
                /\ cloudLBs' = cloudLBs]_vars

\* the create call met the duplicate-name error, the listing showed the load
\* balancer of that name and the pass went on with its id
C31_Witness ==
    /\ pc = "waitForLoadBalancerReady"
    /\ Len(calls) = 2
    /\ calls[1].op = "CreateLoadBalancerInstance" /\ ~calls[1].ok
    /\ calls[2].op = "GetLoadBalancerInstanceList" /\ calls[2].ok
    /\ \E l \in cloudLBs : l.name = calls[1].arg /\ local.lbID = l.id

-----------------------------------------------------------------------------
(* The creation branch from the readiness poll on                          *)

RespTerminating == Detail(FALSE, TRUE, TRUE, "TERMINATING", "Terminating", FALSE, << >>, << >>)

\* responses after which the poll goes on, and responses that end it
PendingPolls == {RespErr, RespMissing, RespInit, RespChanging, RespNoStatus}
FinalPolls == {RespRunIP, RespFailed, RespTerminating}

\* the responses the ten polls may get: k pending ones, then final ones, or
\* pending ones throughout
PollInputs ==
    {Repeat(p, k) \o Repeat(t, MaxReadyRetries - k) :
        p \in PendingPolls, t \in FinalPolls \cup PendingPolls, k \in 0..MaxReadyRetries}

\* A creation pass has created target group 3 and load balancer 4 and is
\* about to poll the load balancer; local.polls are the responses the polls
\* will get
InitWait ==
    /\ \E polls \in PollInputs :
          local = With([NoLocal EXCEPT !.i = 1, !.targetGroupIDs = <<IdStr(3)>>,
                                       !.lbID = IdStr(4)],
                       "polls", polls)
    /\ stored = ServiceInCreation
    /\ service = ServiceInCreation
    /\ created = TRUE
    /\ parked = {}
    /\ cloudLBs = {[id |-> IdStr(4), name |-> lbNameOf(ServiceInCreation)]}
    /\ cloudTGs = {[id |-> IdStr(3), name |-> tgNameOf(ServiceInCreation, 0)]}
    /\ cloudListeners = {}
    /\ queued = FALSE
    /\ pc = "waitForLoadBalancerReady"
    /\ stale = FALSE
    /\ calls = << >>
    /\ pass = [EmptyPass EXCEPT !.fetched = "found", !.startSvc = ServiceInCreation,
                                !.provisioner = TRUE]
    /\ result = Result(0, Nil)

\* the rest of the pass: poll and listeners, address and annotation write,
\* then Reconcile's handling of the returned status
NextWait ==
    \/ WaitForLoadBalancerReady(local.polls[local.retry + 1])
    \/ \E listOk \in BOOLEAN, failing \in {{}, {0}} : CreateListeners(listOk, failing)
    \/ \E resps \in ResolveScenarios : GetExternalAddress(resps[local.retry + 1])
    \/ \E getOk \in BOOLEAN, updOk \in BOOLEAN : PersistLbId(getOk, updOk)
    \/ \E getOk \in BOOLEAN, updOk \in BOOLEAN : ProjectStatus(getOk, updOk)

SpecWait == InitWait /\ [][NextWait]_vars

\* a poll that shows the load balancer running, and one that shows it broken
ShowsRunning(resp) ==
    /\ ~resp.err /\ resp.found /\ resp.hasStatus
    /\ resp.code \in {"RUN", "USED"} /\ resp.statusName = "Running"
ShowsBroken(resp) ==
    /\ ~resp.err /\ resp.found /\ resp.hasStatus
    /\ resp.code \in {"ERROR", "TERMINATING"}

\* the polls that end the wait, and the number of polls made
EndingPolls ==
    {k \in 1..MaxReadyRetries : ShowsRunning(local.polls[k]) \/ ShowsBroken(local.polls[k])}
PollsMade ==
    IF EndingPolls = {} THEN MaxReadyRetries
    ELSE CHOOSE k \in EndingPolls : \A j \in EndingPolls : k <= j

\* the detail fetches in the call log
DetailFetches == {k \in 1..Len(calls) : calls[k].op = "GetLoadBalancerInstanceDetail"}

\* the steps from the readiness poll to the end of the address loop: the
\* poll makes at most ten detail fetches and ends at the first that shows the
\* load balancer running, in ERROR or TERMINATING; whatever it returns, the
\* pass lists the listeners, creates the missing one and goes on to the
\* address loop and the lb-id write, without returning
PollThenListeners ==
    /\ pc = "waitForLoadBalancerReady" =>
          /\ pc' \in {"waitForLoadBalancerReady", "createListeners"}
          /\ result' = result /\ pass'.exit = pass.exit
          /\ Len(calls') <= 10
          /\ Cardinality(DetailFetches') = Len(calls')
          /\ pc' = "waitForLoadBalancerReady" => Len(calls') < PollsMade
          /\ pc' = "createListeners" => Len(calls') = PollsMade
    /\ pc = "createListeners" =>
          /\ pc' = "getExternalAddress"
          /\ result' = result /\ pass'.exit = pass.exit
          /\ Cardinality(DetailFetches') = PollsMade
          /\ \A k \in 1..PollsMade : calls'[k].op = "GetLoadBalancerInstanceDetail"
          /\ calls'[PollsMade + 1].op = "GetLoadBalancerListenerList"
          /\ Len(calls') = PollsMade + 2
          /\ calls'[PollsMade + 2].op = "CreateLoadBalancerListener"
    /\ pc = "getExternalAddress" =>
          /\ pc' \in {"getExternalAddress", "updateServiceAnnotations"}
          /\ result' = result /\ pass'.exit = pass.exit

\* the lb-id write of the pass stores lb-id and the provisioner returns
\* without error
LbIdPersisted ==
    /\ pc' = "projectStatus" /\ pass'.exit = pass.exit
    /\ AnnGet(stored'.annotations, LbIdKey) = local.lbID

\* the lb-id write of the pass fails: nothing is stored and the pass returns
\* the write's error with a 30 s requeue
LbIdWriteFailed ==
    /\ pc' = "idle" /\ pass'.exit = "provisioner-error"
    /\ stored' = stored /\ ~AnnHas(stored'.annotations, LbIdKey)
    /\ result' = Result(30, "UpdateAnnotationsFailed")

\* C32 as stated: the readiness poll makes at most ten detail fetches, and
\* whether it succeeds, times out or sees ERROR or TERMINATING, the pass
\* goes on to listener creation and stores lb-id.
C32_AsStated ==
    [][/\ PollThenListeners
       /\ pc = "updateServiceAnnotations" => LbIdPersisted]_vars

\* C32, amended: the readiness poll makes at most ten detail fetches, and
\* whether it succeeds, times out or sees ERROR or TERMINATING, the pass
\* goes on to listener creation, the address loop and the lb-id write.  The
\* write stores lb-id; when the write itself fails, lb-id is not stored and
\* the pass returns the write's error.
C32_PollNeverAborts ==
    [][/\ PollThenListeners
       /\ pc = "updateServiceAnnotations" => (LbIdPersisted \/ LbIdWriteFailed)]_vars

\* the first poll showed ERROR; the pass still created the listener, stored
\* the lb-id and returned without an error
C32_Witness ==
    /\ pc = "idle" /\ pass.exit \in {"pending", "done"}
    /\ ShowsBroken(local.polls[1])
    /\ "CreateLoadBalancerListener" \in pass.issued
    /\ cloudListeners # {}
    /\ AnnGet(stored.annotations, LbIdKey) = IdStr(4)
    /\ result.err = Nil

-----------------------------------------------------------------------------
(* Listener creation for several ports                                     *)

ThreePorts == <<Port(80, 30080, "TCP"), Port(53, 30053, "UDP"), Port(80, 30081, "UDP")>>

\* the port lists of the Service and the port numbers that may have a
\* listener before the pass
PortInputs == {OnePort, TwoPorts, ThreePorts}
ListenerPortInputs == SUBSET {80, 53}

\* the target group created for the port of 0-based index i
TgOfPort(i) == IdStr(i + 1)

\* A creation pass has created one target group per port and load balancer
\* 9 and is about to poll it; some ports have a listener already
InitListeners ==
    /\ \E ports \in PortInputs, have \in ListenerPortInputs :
          /\ service = Svc(ServiceTypeLoadBalancer, <<naverLBFinalizer>>, NoAnn, ports)
          /\ local = [NoLocal EXCEPT !.i = Len(ports),
                                     !.targetGroupIDs = [k \in 1..Len(ports) |-> TgOfPort(k - 1)],
                                     !.lbID = IdStr(9)]
          /\ cloudTGs = {[id |-> TgOfPort(k - 1), name |-> tgNameOf(service, k - 1)] :
                            k \in 1..Len(ports)}
          /\ cloudListeners = {[lb |-> IdStr(9), port |-> p, tg |-> IdStr(8)] : p \in have}
    /\ stored = service
    /\ created = TRUE
    /\ parked = {}
    /\ cloudLBs = {[id |-> IdStr(9), name |-> lbNameOf(service)]}
    /\ queued = FALSE
    /\ pc = "waitForLoadBalancerReady"
    /\ stale = FALSE
    /\ calls = << >>
    /\ pass = [EmptyPass EXCEPT !.fetched = "found", !.startSvc = service, !.provisioner = TRUE]
    /\ result = Result(0, Nil)

\* the rest of the pass; the load balancer is running at the first poll
NextListeners ==
    \/ WaitForLoadBalancerReady(RespRunIP)
    \/ \E listOk \in BOOLEAN, failing \in SUBSET {0, 1, 2} : CreateListeners(listOk, failing)
    \/ GetExternalAddress(RespRunIP)
    \/ \E getOk \in BOOLEAN, updOk \in BOOLEAN : PersistLbId(getOk, updOk)
    \/ \E getOk \in BOOLEAN, updOk \in BOOLEAN : ProjectStatus(getOk, updOk)

SpecListeners == InitListeners /\ [][NextListeners]_vars

\* the port numbers the listener listing of the step showed: those with a
\* listener on the load balancer when the listing succeeded, none otherwise
ListingShowed ==
    IF \E k \in 1..Len(calls') : calls'[k].op = "GetLoadBalancerListenerList" /\ calls'[k].ok
    THEN {l.port : l \in {x \in cloudListeners : x.lb = local.lbID}}
    ELSE {}

\* the 1-based indexes of the ports the listing showed no listener for
PortsWithoutListener ==
    SelectSeq([k \in 1..Len(service.ports) |-> k],
              LAMBDA k : service.ports[k].port \notin ListingShowed)

\* the create-listener calls of the step, in the order issued
CreateListenerCalls == SelectSeq(calls', LAMBDA c : c.op = "CreateLoadBalancerListener")

\* C33: the create-listener calls of the creation pass are one per Service
\* port whose port number the listener listing did not show, in port order,
\* each for the target group of the same index; none is issued for a port
\* with a listener, and a failed call neither stops the calls for the later
\* ports nor ends the pass.
C33_ListenerPerMissingPort ==
    [][pc = "createListeners" =>
          /\ Len(CreateListenerCalls) = Len(PortsWithoutListener)
          /\ \A j \in 1..Len(CreateListenerCalls) :
                CreateListenerCalls[j].arg =
                    [lb |-> local.lbID,
                     port |-> service.ports[PortsWithoutListener[j]].port,
                     tg |-> local.targetGroupIDs[PortsWithoutListener[j]]]
          /\ \A j \in 1..Len(CreateListenerCalls) :
                CreateListenerCalls[j].arg.port \notin ListingShowed
          /\ pc' = "getExternalAddress"
          /\ result' = result /\ pass'.exit = pass.exit]_vars

\* three ports, none with a listener: the first create call failed and the
\* calls for the second and third port were still issued
C33_Witness ==
    /\ pc = "getExternalAddress"
    /\ service.ports = ThreePorts
    /\ LET cs == SelectSeq(calls, LAMBDA c : c.op = "CreateLoadBalancerListener")
       IN  /\ Len(cs) = 3
           /\ ~cs[1].ok /\ cs[2].ok /\ cs[3].ok
           /\ cs[2].arg = [lb |-> IdStr(9), port |-> 53, tg |-> TgOfPort(1)]
    /\ pass.exit = "" /\ result = Result(0, Nil)

-----------------------------------------------------------------------------
(* A fresh Service in a cloud that may reject the listener at first        *)

\* the cloud accepts the create-listener call
ListenerAccepted == CreateListeners(TRUE, {})

\* the cloud rejects the create-listener call
ListenerRejected == CreateListeners(TRUE, {0})

\* The controller of NextFair with a cloud that may reject a
\* create-listener call
NextRetry ==
    \/ ReconcileGet(TRUE)
    \/ AddFinalizer(TRUE)
    \/ CreateTargetGroupFair
    \/ CreateLoadBalancerFair
    \/ AddTargetsWithRetry
    \/ \E polls \in ReadyPolls : WaitForLoadBalancerReady(polls[local.retry + 1])
    \/ ListenerAccepted
    \/ ListenerRejected
    \/ \E resps \in HealthyResolves : GetExternalAddress(resps[local.retry + 1])
    \/ PersistLbId(TRUE, TRUE)
    \/ UpdateLoadBalancer(RespInit)
    \/ UpdateMeetsRun
    \/ ProjectStatus(TRUE, TRUE)

\* The scheduling of SpecFair, and a cloud that eventually accepts the
\* create-listener call of a controller that keeps issuing it (strong
\* fairness of the accepted call)
SpecRetry ==
    /\ InitFair /\ [][NextRetry]_vars
    /\ WF_pc(PassProceeds)
    /\ WF_vars(ReconcileGet(TRUE))
    /\ SF_vars(UpdateMeetsRun)
    /\ SF_vars(ListenerAccepted)

\* the creation pass has just met a rejected create-listener call
ListenerMissed ==
    /\ pc = "getExternalAddress"
    /\ \E k \in 1..Len(calls) : calls[k].op = "CreateLoadBalancerListener" /\ ~calls[k].ok

\* every port of the Service has a listener on the Service's load balancer
EveryPortHasListener ==
    /\ stored # NoService
    /\ AnnGet(stored.annotations, LbIdKey) # << >>
    /\ \A k \in 1..Len(stored.ports) :
          \E l \in cloudListeners : /\ l.lb = AnnGet(stored.annotations, LbIdKey)
                                    /\ l.port = stored.ports[k].port

\* C34: after a creation pass in which a listener could not be created,
\* later passes create it: eventually every port has a listener.
C34_ListenerRetried == ListenerMissed ~> EveryPortHasListener

-----------------------------------------------------------------------------
(* Node registration on its own                                            *)

\* a node known as control plane by its taint only, and a worker that has
\* no InternalIP address
TaintedNode ==
    [name |-> <<"t">>, labels |-> {}, taints |-> <<"other", ControlPlaneLabel>>,
     addresses |-> NodeAddr("10.0.0.4"), providerID |-> <<"n", "/", "5", "4">>,
     annotations |-> NoAnn]
NoIpNode ==
    [name |-> <<"x">>, labels |-> {}, taints |-> << >>,
     addresses |-> <<[type |-> "Hostname", address |-> "h"]>>,
     providerID |-> <<"n", "/", "5", "3">>, annotations |-> NoAnn]
LabelledNode == [MasterNode EXCEPT !.taints = << >>, !.labels = {MasterLabel}]

NodeKinds == {MasterNode, LabelledNode, TaintedNode, NoIpNode, WorkerA, WorkerB}

\* the node lists of the cluster: up to two nodes of any kind
NodeListInputs ==
    {<< >>} \cup {<<a>> : a \in NodeKinds} \cup {<<a, b>> : a \in NodeKinds, b \in NodeKinds}

\* every instance number a node may stand for
AllInstances == {<<"5", "0">>, InstA, InstB, <<"5", "3">>, <<"5", "4">>}

\* what node registration may meet: the node listing, the server API, the
\* AddTarget calls and the verification listings
NodeOracles ==
    {RegOracle(nl, v, Repeat(add, MaxAddRetries), Repeat(verify, MaxAddRetries), "ok") :
        nl \in BOOLEAN, v \in {VServerGood, VServerFallback, VServerDown},
        add \in BOOLEAN, verify \in {Registered(AllInstances), ListFailed}}

\* addNodesToTargetGroup is about to be called in a cluster of local.nodes
InitNodes ==
    /\ \E nodes \in NodeListInputs, o \in NodeOracles :
          local = With([NoLocal EXCEPT !.o = o, !.ret = "returned"], "nodes", nodes)
    /\ pc = "addNodesToTargetGroup"
    /\ stored = NoService
    /\ created = FALSE
    /\ parked = {}
    /\ cloudLBs = {}
    /\ cloudTGs = {[id |-> IdStr(1), name |-> OldTgName(1)]}
    /\ cloudListeners = {}
    /\ queued = FALSE
    /\ service = NoService
    /\ stale = FALSE
    /\ calls = << >>
    /\ pass = EmptyPass
    /\ result = Result(0, Nil)

\* the call of addNodesToTargetGroup, lines 992-1049: the node listing and
\* the targets gathered, up to the call of addTargetsWithRetry
CallAddNodesToTargetGroup ==
    /\ pc = "addNodesToTargetGroup"
    /\ LET a == addNodesToTargetGroup(local.nodes, local.o)
       IN  /\ calls' = a.calls
           /\ pass' = [pass EXCEPT !.issued = @ \cup Ops(a.calls)]
           /\ pc' = IF a.enters THEN "addTargetsWithRetry" ELSE local.ret
           /\ local' = IF a.enters
                       THEN [local EXCEPT !.targets = a.targets, !.remaining = a.targets]
                       ELSE Return(local, [NoOut EXCEPT !.err = a.err])
    /\ UNCHANGED <<stored, created, parked, cloudLBs, cloudTGs, cloudListeners, queued, service,
                   stale, result>>

\* the call, then the rounds of addTargetsWithRetry
NextNodes == CallAddNodesToTargetGroup \/ AddTargetsWithRetry

SpecNodes == InitNodes /\ [][NextNodes]_vars

\* the node is a control-plane node: role label or role taint key
IsControlPlane(node) ==
    \/ node.labels \cap {MasterLabel, ControlPlaneLabel} # {}
    \/ \E t \in 1..Len(node.taints) : node.taints[t] \in {MasterLabel, ControlPlaneLabel}

\* the node has an InternalIP address
HasInternalIP(node) ==
    \E a \in 1..Len(node.addresses) : node.addresses[a].type = "InternalIP"

\* the instance number the node's metadata stands for (every node kind with
\* a provider id has its own)
InstanceOfNode(node) == getNaverCloudInstanceNo(node)

\* the targets submitted: those of the AddTarget calls and those gathered
SubmittedTargets ==
    {local.out.targets[i] : i \in 1..Len(local.out.targets)}
    \cup UNION {{calls[k].arg[i] : i \in 1..Len(calls[k].arg)} :
                   k \in {j \in 1..Len(calls) : calls[j].op = "AddTarget"}}

\* C35: no target submitted for a target group stands for a control-plane
\* node or for a node without an InternalIP address.
C35_NoControlPlaneTarget ==
    pc = "returned" =>
        \A k \in 1..Len(local.nodes) :
            (IsControlPlane(local.nodes[k]) \/ ~HasInternalIP(local.nodes[k]))
                => InstanceOfNode(local.nodes[k]) \notin SubmittedTargets

\* a tainted control-plane node and a worker: only the worker was submitted
C35_Witness ==
    /\ pc = "returned"
    /\ local.nodes = <<TaintedNode, WorkerA>>
    /\ SubmittedTargets = {InstA}
    /\ \E k \in 1..Len(calls) : calls[k].op = "AddTarget" /\ calls[k].arg = <<InstA>>

\* the worker nodes of the cluster whose instance number no strategy
\* resolves: no metadata, and the lookup by address fails
UnresolvedWorkers ==
    {k \in 1..Len(local.nodes) :
        /\ ~IsControlPlane(local.nodes[k]) /\ HasInternalIP(local.nodes[k])
        /\ getNaverCloudInstanceNo(local.nodes[k]) = << >>
        /\ getNaverCloudInstanceNoByIP(local.o.vserver[k],
                                       getNodeInternalIP(local.nodes[k])).err # Nil}

\* C36: a worker node whose instance number cannot be resolved is skipped
\* and does not make node registration return an error: when the node
\* listing and the AddTarget calls succeed, registration returns nil, also
\* when the unresolved node is the only worker.
C36_UnresolvedNodeSkipped ==
    (/\ pc = "returned"
     /\ UnresolvedWorkers # {}
     /\ local.o.nodeListOk
     /\ local.o.add[1] /\ local.o.verify[1].kind = "ok")
        => local.out.err = Nil

-----------------------------------------------------------------------------
(* The copies the controller writes                                        *)

\* a step in which the controller sends a finalizer write
FinalizerWriteStep ==
    pc \in {"addFinalizer", "removeFinalizer"} /\ pc' = "idle"

\* a step in which the controller's annotation or status write is stored
AnnotationOrStatusWriteStep ==
    /\ pc \in {"reconcileNaverCloudLB", "createTargetGroup", "updateServiceAnnotations",
              "projectStatus"}
    /\ pc' # pc
    /\ stored' # stored

\* C37: every write of the controller is made on the latest version of the
\* Service: a finalizer write is sent on a copy equal to the stored object,
\* also after an external edit during the pass, and an annotation or status
\* write changes nothing of the stored object but annotations and status.
C37_WritesOnFreshCopy ==
    [][/\ FinalizerWriteStep => service = stored
       /\ AnnotationOrStatusWriteStep =>
             /\ stored # NoService /\ stored' # NoService
             /\ [stored' EXCEPT !.annotations = stored.annotations,
                                !.ingress = stored.ingress] = stored]_vars

-----------------------------------------------------------------------------
(* The provisioning statuses Reconcile sees                                *)

\* the update branch of the pass met a load balancer in the ERROR state
UpdateMetError ==
    /\ pass.provisioner
    /\ local.detail.found /\ local.detail.hasStatus /\ local.detail.code = "ERROR"

\* C38: the provisioner returns an error or the status PENDING or ACTIVE,
\* never ERROR or CREATING, so no pass ends in Reconcile's ERROR branch with
\* its 60 s requeue; a load balancer in the ERROR state makes the update
\* branch return an error, which Reconcile requeues after 30 s.
C38_NoErrorStatus ==
    /\ pc = "projectStatus" => local.status \in {"PENDING", "ACTIVE"}
    /\ local.status \notin {"ERROR", "CREATING"}
    /\ pass.exit # "error-state"
    /\ result.RequeueAfter # 60
    /\ (pc = "idle" /\ UpdateMetError) =>
          /\ pass.exit = "provisioner-error"
          /\ result.err # Nil /\ result.RequeueAfter = 30

\* a pass of the update branch met a load balancer in the ERROR state and
\* returned an error with a 30 s requeue
C38_Witness ==
    /\ pc = "idle" /\ UpdateMetError
    /\ pass.exit = "provisioner-error"
    /\ result.err # Nil /\ result.RequeueAfter = 30
    /\ queued

-----------------------------------------------------------------------------
(* Teardown of a Service that keeps its finalizer                          *)

\* the step of the teardown call
TeardownStep == pc = "deleteNaverCloudLB" /\ pc' # pc

\* the lb-id the pass's copy carries
LbIdOfPass == AnnGet(service.annotations, LbIdKey)

\* C40: the teardown leaves the Service as it is, annotations included, and
\* so does a failed finalizer removal; every pass that finds the Service
\* deleting with the finalizer runs the teardown, which issues the delete
\* call for the lb-id of the Service whether or not that load balancer still
\* exists; the finalizer removal is reached only when that call succeeded.
C40_TeardownRepeatsDelete ==
    [][/\ TeardownStep =>
             /\ stored' = stored /\ service' = service
             /\ LbIdOfPass # << >> =>
                   /\ calls' # << >>
                   /\ calls'[1] = Call("DeleteLoadBalancerInstances", LbIdOfPass, calls'[1].ok)
                   /\ pc' = "removeFinalizer" => calls'[1].ok
                   /\ ~calls'[1].ok => pc' = "idle" /\ result'.err # Nil
       /\ (pc = "removeFinalizer" /\ pass'.exit = "finalizer-remove-failed") =>
             stored' = stored
       /\ (/\ pc = "idle" /\ pc' # "idle"
           /\ service'.deletionTimestamp
           /\ containsString(service'.finalizers, naverLBFinalizer)) =>
             pc' = "deleteNaverCloudLB"]_vars

\* the load balancer of the deleting Service is gone from the cloud, the
\* delete call for its lb-id was issued again and refused, and the Service
\* keeps its finalizer and its lb-id
C40_Witness ==
    /\ pc = "idle" /\ pass.exit = "teardown-error"
    /\ stored # NoService /\ stored.deletionTimestamp
    /\ containsString(stored.finalizers, naverLBFinalizer)
    /\ AnnGet(stored.annotations, LbIdKey) # << >>
    /\ calls # << >>
    /\ calls[1] = Call("DeleteLoadBalancerInstances", AnnGet(stored.annotations, LbIdKey), FALSE)
    /\ \A l \in cloudLBs : l.id # AnnGet(stored.annotations, LbIdKey)
    /\ queued

=============================================================================
